---- MODULE Spec2Model ----
(***************************************************************************)
(* Pokenator: the adaptive question-selection and set-narrowing engine     *)
(* (QuestionGenerator of src/pokenator/models.py) together with the        *)
(* attribute derivation pass that prepares its catalog.                     *)
(*                                                                         *)
(* Python values are modelled as follows.  A raw JSON value is a tagged    *)
(* record [t, v]; derived attributes are plain strings; the Python         *)
(* booleans and None stored in derived fields and in question keys are the *)
(* strings "True", "False" and "None", so that every question value is a   *)
(* string.  A dict is a function whose DOMAIN is its set of keys.  A        *)
(* Counter / dict with insertion order is a sequence of [value, count]     *)
(* entries in first-insertion order.  Measurements are integers in         *)
(* hundredths (0.70 m = 70, 9.90 kg = 990).                                 *)
(***************************************************************************)
EXTENDS Integers, Sequences, FiniteSets, Bags, TLC

\* dataset, current_pokemon_set, asked_questions: the fields of a
\* QuestionGenerator.  result: the (attribute, value) tuple the last
\* generate_question call returned.  The others record the history of the
\* session: issued, the bag of question keys returned so far; turns, the
\* number of generate_question calls up to the first terminal outcome;
\* terminated, whether a terminal outcome was returned; pending, whether the
\* last question returned is still unanswered; tick, which flips on every
\* call, so that a call that changes nothing is still a step.
\* passes: how many times preprocess_pokemon_dataset has run on the list
\* `dataset`; raised: the exception its last run ended with, "none" if it
\* returned.
\* host: the program that drives the instance (its position, the target it
\* answers for, its counters); [program |-> "none"] when the calls are not
\* tied to a program.
\* heap: the list and set objects that QuestionGenerator instances create;
\* sessions: the instances built from the list `dataset`, each holding
\* references into the heap.
VARIABLES dataset, current_pokemon_set, asked_questions, result,
          issued, turns, terminated, pending, tick, passes, raised,
          heap, sessions, host

vars == <<dataset, current_pokemon_set, asked_questions, result,
          issued, turns, terminated, pending, tick, passes, raised,
          heap, sessions, host>>

\* The variables of several instances over one dataset.
session_vars == <<heap, sessions>>

\* No program: the methods are called in any order.
NoHost == [program |-> "none"]

\* The variables of the derivation pass.
derivation_vars == <<passes, raised>>

(* ------------------------------ bounds --------------------------------- *)

\* Largest catalog explored under the unrestricted host (Spec).
MaxCatalog == 3

\* Largest catalog explored under the question/answer loop (SpecGame).
MaxGameCatalog == 6

\* Cap on the number of next_question calls counted before a terminal outcome.
MaxTurns == 16

\* Longest raw dataset handed to the derivation pass (SpecDerive).
MaxRawCatalog == 2

\* Number of times the derivation pass is run on the same dataset.
MaxPasses == 2

\* Length of an evolution chain.
MaxChain == 3

\* Distance, in hundredths, of the measurements tried around each bracket.
MaxMargin == 2

\* Games one run of play_game_with_voice.py plays.
MaxGames == 2

\* Records of the dataset simulate_game loads.
MaxSimCatalog == 4

\* Largest dataset handed to both generators (SpecBoth).
MaxBothCatalog == 4

\* Records of the chainless datasets handed to both generators.
MaxPlainCatalog == 6

\* generate_question calls made again on a standing terminal outcome.
MaxRepeat == 2

\* Largest catalog explored with the answers recorded (SpecRecorded).
MaxRecordedCatalog == 5

\* Records of the longest dataset simulate_game is run on.
MaxLongCatalog == 22

\* Instances built from one dataset.
MaxSessions == 2

\* Records of the dataset the instances share.
MaxSessionCatalog == 2

(* --------------------------- Python values ----------------------------- *)

True == "True"

False == "False"

None == "None"

Str(s) == [t |-> "str", v |-> s]

Num(n) == [t |-> "num", v |-> n]

List(s) == [t |-> "list", v |-> s]

Dict(d) == [t |-> "dict", v |-> d]

Null == [t |-> "null", v |-> None]

\* dict.get(key, default)
Get(d, key, default) == IF key \in DOMAIN d THEN d[key] ELSE default

\* Python truthiness of a JSON value (used by `not evolution`, `and color`).
Truthy(x) ==
    CASE x.t = "null" -> FALSE
      [] x.t = "str"  -> x.v # ""
      [] x.t = "num"  -> x.v # 0
      [] x.t = "list" -> Len(x.v) > 0
      [] x.t = "dict" -> DOMAIN x.v # {}

\* str.lower() on the colour spellings of the catalog.
lower(s) ==
    CASE s = "Red"  -> "red"
      [] s = "Blue" -> "blue"
      [] OTHER      -> s

(* --------------------------- language.py ------------------------------- *)

HEIGHT_BRACKETS == [small |-> 70, medium |-> 150]

WEIGHT_BRACKETS == [light |-> 990, medium |-> 5625]

\* nom[0] on the names of the catalog ("E'" stands for an accented capital E).
first_char(nom) ==
    CASE nom = "Salameche" -> "S"
      [] nom = "Dracaufeu" -> "D"
      [] nom = "Tortank"   -> "T"
      [] nom = "Tauros"    -> "T"
      [] nom = "Ptera"     -> "P"
      [] nom = "Ronflex"   -> "R"
      [] nom = "Carapuce"  -> "C"
      [] nom = "E'voli"    -> "E'"
      [] nom = "Roucool"   -> "R"
      [] nom = "Piafabec"  -> "P"

\* unicodedata NFKD + ASCII-ignore + lower, on the initials of the catalog.
normalize_letter(letter) ==
    CASE letter = "S"  -> "s"
      [] letter = "D"  -> "d"
      [] letter = "C"  -> "c"
      [] letter = "T"  -> "t"
      [] letter = "P"  -> "p"
      [] letter = "R"  -> "r"
      [] letter = "E'" -> "e"

\* generate_evolution_question: which of the two wordings is used.
generate_evolution_question(value) ==
    IF ~(value = True) THEN "forme finale" ELSE "peut encore evoluer"

(* ------------------------ attribute derivation ------------------------- *)

\* Variant of get_height_category: strict comparisons (`height < ...`).
get_height_category_strict(height) ==
    IF height < HEIGHT_BRACKETS["small"] THEN "small"
    ELSE IF height < HEIGHT_BRACKETS["medium"] THEN "medium"
    ELSE "large"

get_height_category(height) ==
    IF height <= HEIGHT_BRACKETS["small"] THEN "small"
    ELSE IF height <= HEIGHT_BRACKETS["medium"] THEN "medium"
    ELSE "large"

get_weight_category(weight) ==
    IF weight <= WEIGHT_BRACKETS["light"] THEN "light"
    ELSE IF weight <= WEIGHT_BRACKETS["medium"] THEN "medium"
    ELSE "heavy"

\* list.index(id): position (0-based) of the first occurrence, -1 for ValueError.
index_of(chain, id) ==
    IF \E i \in 1..Len(chain) : chain[i] = id
    THEN (CHOOSE i \in 1..Len(chain) :
              chain[i] = id /\ \A j \in 1..(i-1) : chain[j] # id) - 1
    ELSE -1

\* Variant of can_evolve: `position < len(evolution)`.
can_evolve_counting_last(evolution, id) ==
    IF ~Truthy(evolution) \/ evolution.t # "list" THEN False
    ELSE LET position == index_of(evolution.v, id)
         IN IF position = -1 THEN False
            ELSE IF position < Len(evolution.v) THEN True ELSE False

can_evolve(evolution, id) ==
    IF ~Truthy(evolution) \/ evolution.t # "list" THEN False
    ELSE LET position == index_of(evolution.v, id)
         IN IF position = -1 THEN False
            ELSE IF position < Len(evolution.v) - 1 THEN True ELSE False

\* Variant of preprocess_pokemon: the raw height is rescaled in place
\* (pokemon['taille'] *= 2) after its class has been derived.
preprocess_pokemon_rescaling(pokemon) ==
    LET color_ok ==
            /\ "visual_attributes" \in DOMAIN pokemon
            /\ pokemon["visual_attributes"].t = "dict"
            /\ "primary_color" \in DOMAIN pokemon["visual_attributes"].v
            /\ Truthy(pokemon["visual_attributes"].v["primary_color"])
        color == pokemon["visual_attributes"].v["primary_color"]
        visual_primary_color ==
            IF color_ok /\ color.t = "str" THEN lower(color.v) ELSE "unknown"
        height_category ==
            IF "taille" \in DOMAIN pokemon /\ pokemon["taille"].t # "null"
               /\ pokemon["taille"].t = "num"
            THEN get_height_category(pokemon["taille"].v) ELSE "unknown"
        weight_category ==
            IF "poids" \in DOMAIN pokemon /\ pokemon["poids"].t # "null"
               /\ pokemon["poids"].t = "num"
            THEN get_weight_category(pokemon["poids"].v) ELSE "unknown"
        derived ==
            [visual_primary_color |-> visual_primary_color,
             height_category |-> height_category,
             weight_category |-> weight_category]
        evo == IF "evolution" \in DOMAIN pokemon
               THEN [can_evolve |-> can_evolve(pokemon["evolution"], pokemon["id"])]
               ELSE <<>>
        rescaled ==
            IF "taille" \in DOMAIN pokemon /\ pokemon["taille"].t = "num"
            THEN [taille |-> Num(2 * pokemon["taille"].v)] ELSE <<>>
    IN evo @@ derived @@ rescaled @@ pokemon

\* One iteration of the loop of preprocess_pokemon_dataset: the record with
\* the derived keys added (or overwritten).
preprocess_pokemon(pokemon) ==
    LET color_ok ==
            /\ "visual_attributes" \in DOMAIN pokemon
            /\ pokemon["visual_attributes"].t = "dict"
            /\ "primary_color" \in DOMAIN pokemon["visual_attributes"].v
            /\ Truthy(pokemon["visual_attributes"].v["primary_color"])
        color == pokemon["visual_attributes"].v["primary_color"]
        visual_primary_color ==
            IF color_ok /\ color.t = "str" THEN lower(color.v) ELSE "unknown"
        height_category ==
            IF "taille" \in DOMAIN pokemon /\ pokemon["taille"].t # "null"
               /\ pokemon["taille"].t = "num"
            THEN get_height_category(pokemon["taille"].v) ELSE "unknown"
        weight_category ==
            IF "poids" \in DOMAIN pokemon /\ pokemon["poids"].t # "null"
               /\ pokemon["poids"].t = "num"
            THEN get_weight_category(pokemon["poids"].v) ELSE "unknown"
        derived ==
            [visual_primary_color |-> visual_primary_color,
             height_category |-> height_category,
             weight_category |-> weight_category]
        evo == IF "evolution" \in DOMAIN pokemon
               THEN [can_evolve |-> can_evolve(pokemon["evolution"], pokemon["id"])]
               ELSE <<>>
    IN evo @@ derived @@ pokemon

preprocess_pokemon_dataset(ds) == [i \in 1..Len(ds) |-> preprocess_pokemon(ds[i])]

(* ------------------------------ catalog -------------------------------- *)

\* A raw record as the catalog loader supplies it; `extra` holds the optional
\* keys (visual_attributes, taille, poids, evolution).
Raw(id, nom, types, extra) == [id |-> id, nom |-> nom, types |-> types] @@ extra

Color(c) == [visual_attributes |-> Dict([primary_color |-> Str(c)])]

Size(taille, poids) == [taille |-> Num(taille), poids |-> Num(poids)]

Chain(c) == [evolution |-> List(c)]

\* The raw records catalogs are drawn from.  Together they hold every shape
\* the derivation distinguishes: single and double types (two entities share
\* the same two), a colour that needs lower-casing, missing / null /
\* mistyped colours and measurements, the three size and
\* mass classes with a measurement on a threshold, and a chain in which the
\* entity is first, in the middle, last, absent, plus an empty chain and a
\* record with no chain at all.
Pool ==
    << Raw(4, "Salameche", <<"Feu">>,
           Color("Red") @@ Size(60, 850) @@ Chain(<<4, 5, 6>>)),
       Raw(6, "Dracaufeu", <<"Feu", "Vol">>,
           Color("red") @@ Size(170, 9050) @@ Chain(<<4, 5, 6>>)),
       Raw(9, "Tortank", <<"Eau">>,
           Color("Blue") @@ Size(160, 8550) @@ Chain(<<7, 8, 9>>)),
       Raw(128, "Tauros", <<"Normal", "Vol">>,
           [visual_attributes |-> Dict([primary_color |-> Str("")]),
            taille |-> Num(140), poids |-> Num(5625), evolution |-> List(<<>>)]),
       Raw(142, "Ptera", <<"Roche", "Vol">>,
           [visual_attributes |-> Str("gray"), taille |-> Null,
            poids |-> Str("59.0")]),
       Raw(143, "Ronflex", <<"Normal", "Vol">>,
           [visual_attributes |-> Dict([primary_color |-> Num(7)]),
            taille |-> Num(150)]),
       Raw(7, "Carapuce", <<"Eau">>,
           Color("blue") @@ Size(50, 900) @@ Chain(<<7, 8, 9>>)),
       Raw(133, "E'voli", <<"Normal">>,
           Color("red") @@ Size(70, 990) @@ Chain(<<134, 135, 136>>)) >>

\* The subsequence of s at the positions in idx, in the order of s.
RECURSIVE Pick(_, _, _)
Pick(s, idx, i) ==
    IF i > Len(s) THEN <<>>
    ELSE IF i \in idx THEN <<s[i]>> \o Pick(s, idx, i + 1)
    ELSE Pick(s, idx, i + 1)

Reverse(s) == [i \in 1..Len(s) |-> s[Len(s) + 1 - i]]

\* The catalogs of at most n entities drawn from the records in one of the
\* given file orders, after the derivation pass (load_dataset).
Catalogs(orders, n) ==
    { preprocess_pokemon_dataset(Pick(order, idx, 1)) :
        order \in orders,
        idx \in { x \in SUBSET (1..Len(Pool)) : Cardinality(x) <= n } }

(* ------------------------------ Counter -------------------------------- *)

\* counts[value] += 1 on a Counter kept in first-insertion order.
CounterAdd(counts, value) ==
    IF \E i \in 1..Len(counts) : counts[i].value = value
    THEN [i \in 1..Len(counts) |->
             IF counts[i].value = value
             THEN [value |-> value, count |-> counts[i].count + 1]
             ELSE counts[i]]
    ELSE Append(counts, [value |-> value, count |-> 1])

\* Counter(values)
RECURSIVE CounterFrom(_, _)
CounterFrom(counts, values) ==
    IF values = <<>> THEN counts
    ELSE CounterFrom(CounterAdd(counts, Head(values)), Tail(values))

Counter(values) == CounterFrom(<<>>, values)

\* counter[value]: 0 for a value never counted.
CounterGet(counts, value) ==
    IF \E i \in 1..Len(counts) : counts[i].value = value
    THEN (CHOOSE e \in {counts[i] : i \in 1..Len(counts)} : e.value = value).count
    ELSE 0

(* --------------------------- distributions ----------------------------- *)

\* types = []; for pokemon in pokemon_set: types.extend(pokemon['types'])
\* Variant of all_types: one type per entity
\* (types.append(pokemon['types'][0])).
RECURSIVE all_types_first_only(_)
all_types_first_only(pokemon_set) ==
    IF pokemon_set = <<>> THEN <<>>
    ELSE <<Head(pokemon_set)["types"][1]>> \o all_types_first_only(Tail(pokemon_set))

RECURSIVE all_types(_)
all_types(pokemon_set) ==
    IF pokemon_set = <<>> THEN <<>>
    ELSE Head(pokemon_set)["types"] \o all_types(Tail(pokemon_set))

get_type_distribution(pokemon_set) == Counter(all_types(pokemon_set))

\* Variant of count_known: the `!= "unknown"` test dropped.
RECURSIVE count_all(_, _, _)
count_all(counts, pokemon_set, key) ==
    IF pokemon_set = <<>> THEN counts
    ELSE count_all(CounterAdd(counts, Get(Head(pokemon_set), key, "unknown")),
                   Tail(pokemon_set), key)

\* The two loops (the first five entities, then the rest) of the three
\* single-valued distributions: count pokemon.get(key, "unknown") unless it
\* is "unknown".
RECURSIVE count_known(_, _, _)
count_known(counts, pokemon_set, key) ==
    IF pokemon_set = <<>> THEN counts
    ELSE LET category == Get(Head(pokemon_set), key, "unknown")
         IN count_known(IF category # "unknown" THEN CounterAdd(counts, category)
                        ELSE counts,
                        Tail(pokemon_set), key)

get_visual_attribute_distribution(pokemon_set, attribute) ==
    count_known(<<>>, pokemon_set,
                IF attribute = "primary_color" THEN "visual_primary_color"
                ELSE "visual_other")

get_height_distribution(pokemon_set) ==
    count_known(<<>>, pokemon_set, "height_category")

get_weight_distribution(pokemon_set) ==
    count_known(<<>>, pokemon_set, "weight_category")

get_evolution_distribution(pokemon_set) ==
    Counter([i \in 1..Len(pokemon_set) |-> Get(pokemon_set[i], "can_evolve", False)])

(* ------------------------------ scoring -------------------------------- *)

\* The (yes_count, total) pairs, total <= 10, whose double-precision score
\* abs(0.5 - yes_count/total*100/100) is one or two units in the last place
\* above that of (total - yes_count, total), the pair of equal exact score.
RoundsHigh ==
    { <<1, 3>>, <<4, 5>>, <<2, 6>>, <<5, 6>>, <<1, 7>>, <<3, 7>>,
      <<1, 9>>, <<3, 9>>, <<7, 9>>, <<3, 10>>, <<8, 10>> }

Abs(x) == IF x < 0 THEN -x ELSE x

\* Variant of ratio_score: abs() omitted.
ratio_score_signed(yes_count, total) ==
    LET yes_ratio == [num |-> yes_count * 100, den |-> total]
        hundredth == [num |-> yes_ratio.num, den |-> yes_ratio.den * 100]
    IN [num |-> hundredth.den - 2 * hundredth.num,
        den |-> 2 * hundredth.den,
        rnd |-> IF <<yes_count, total>> \in RoundsHigh THEN 1 ELSE 0]

\* yes_ratio = yes_count/total * 100; score = abs(0.5 - yes_ratio/100).
\* A float is the fraction num/den plus its rounding rank rnd among the
\* floats of equal exact value.
ratio_score(yes_count, total) ==
    LET yes_ratio == [num |-> yes_count * 100, den |-> total]
        hundredth == [num |-> yes_ratio.num, den |-> yes_ratio.den * 100]
    IN [num |-> Abs(hundredth.den - 2 * hundredth.num),
        den |-> 2 * hundredth.den,
        rnd |-> IF <<yes_count, total>> \in RoundsHigh THEN 1 ELSE 0]

\* a < b on floats.
ScoreLess(a, b) ==
    \/ a.num * b.den < b.num * a.den
    \/ a.num * b.den = b.num * a.den /\ a.rnd < b.rnd

\* The yes_count calculate_question_score derives for (attribute, value).
score_yes_count(attribute, value, pokemon_set) ==
    CASE attribute = "can_evolve" ->
           Cardinality({ i \in 1..Len(pokemon_set) :
                           Get(pokemon_set[i], attribute, None) = value })
      [] attribute = "type" ->
           CounterGet(get_type_distribution(pokemon_set), value)
      [] attribute = "primary_color" ->
           CounterGet(get_visual_attribute_distribution(pokemon_set, "primary_color"),
                      value)
      [] attribute = "height_category" ->
           CounterGet(get_height_distribution(pokemon_set), value)
      [] attribute = "weight_category" ->
           CounterGet(get_weight_distribution(pokemon_set), value)
      [] OTHER -> 0

calculate_question_score(attribute, value, pokemon_set) ==
    ratio_score(score_yes_count(attribute, value, pokemon_set), Len(pokemon_set))

(* ------------------------- question selection -------------------------- *)

\* The dict `distributions` of evaluate_questions, in insertion order.
distributions(pokemon_set) ==
    << [attr |-> "type", dist |-> get_type_distribution(pokemon_set)],
       [attr |-> "primary_color",
        dist |-> get_visual_attribute_distribution(pokemon_set, "primary_color")],
       [attr |-> "height_category", dist |-> get_height_distribution(pokemon_set)],
       [attr |-> "weight_category", dist |-> get_weight_distribution(pokemon_set)],
       [attr |-> "can_evolve", dist |-> get_evolution_distribution(pokemon_set)] >>

\* Variant of IsValidDistribution: `if len(dist) > 0`.
IsValidDistribution_nonempty(d) == Len(d.dist) > 0

IsValidDistribution(d) == Len(d.dist) > 1

valid_distributions(pokemon_set) ==
    SelectSeq(distributions(pokemon_set), IsValidDistribution)

\* Variant of skip_medium: the test covers height only.
skip_medium_height_only(attr, value) ==
    attr = "height_category" /\ value = "medium"

\* if (attr == 'height_category' and value == 'medium') or (... weight ...)
skip_medium(attr, value) ==
    \/ attr = "height_category" /\ value = "medium"
    \/ attr = "weight_category" /\ value = "medium"

\* The inner loop `for value, count in dist.items()` from entry i on.
RECURSIVE questions_of(_, _, _, _, _)
questions_of(attr, dist, i, asked, pokemon_set) ==
    IF i > Len(dist) THEN <<>>
    ELSE LET value == dist[i].value
             rest  == questions_of(attr, dist, i + 1, asked, pokemon_set)
         IN IF <<attr, value>> \in asked THEN rest
            ELSE IF skip_medium(attr, value) THEN rest
            ELSE << [score |-> calculate_question_score(attr, value, pokemon_set),
                     key   |-> <<attr, value>>] >> \o rest

\* The outer loop `for attr, dist in valid_distributions.items()`.
RECURSIVE all_questions(_, _, _)
all_questions(valid, asked, pokemon_set) ==
    IF valid = <<>> THEN <<>>
    ELSE questions_of(Head(valid).attr, Head(valid).dist, 1, asked, pokemon_set)
         \o all_questions(Tail(valid), asked, pokemon_set)

\* sorted(questions, key=lambda x: x[0]): stable, ascending.
RECURSIVE insert_sorted(_, _)
insert_sorted(sorted, q) ==
    IF sorted = <<>> THEN <<q>>
    ELSE IF ScoreLess(q.score, Head(sorted).score) THEN <<q>> \o sorted
    ELSE <<Head(sorted)>> \o insert_sorted(Tail(sorted), q)

RECURSIVE sorted_by_score(_, _)
sorted_by_score(done, todo) ==
    IF todo = <<>> THEN done
    ELSE sorted_by_score(insert_sorted(done, Head(todo)), Tail(todo))

\* Variant of evaluate_questions: the `in self.asked_questions` test dropped.
evaluate_questions_ignoring_asked(pokemon_set, asked) ==
    sorted_by_score(<<>>, all_questions(valid_distributions(pokemon_set), {},
                                        pokemon_set))

evaluate_questions(pokemon_set, asked) ==
    sorted_by_score(<<>>, all_questions(valid_distributions(pokemon_set), asked,
                                        pokemon_set))

(* ------------------- the inline scorer of main.py ---------------------- *)

\* As RoundsHigh, for the score abs(0.5 - yes_count/total) of main.py.
main_RoundsHigh ==
    { <<1, 3>>, <<4, 5>>, <<2, 6>>, <<1, 7>>, <<3, 7>>,
      <<1, 9>>, <<3, 9>>, <<3, 10>>, <<8, 10>> }

\* yes_percent = yes_count / len(set); score = abs(0.5 - yes_percent),
\* 0.5 on an empty set.
main_score(yes_count, total) ==
    IF total > 0
    THEN [num |-> Abs(total - 2 * yes_count),
          den |-> 2 * total,
          rnd |-> IF <<yes_count, total>> \in main_RoundsHigh THEN 1 ELSE 0]
    ELSE [num |-> 1, den |-> 2, rnd |-> 0]

\* The dict `distributions` of main.py's evaluate_questions.
main_distributions(pokemon_set) ==
    << [attr |-> "type", dist |-> get_type_distribution(pokemon_set)],
       [attr |-> "primary_color",
        dist |-> get_visual_attribute_distribution(pokemon_set, "primary_color")],
       [attr |-> "height_category", dist |-> get_height_distribution(pokemon_set)],
       [attr |-> "weight_category", dist |-> get_weight_distribution(pokemon_set)] >>

\* The inner loop of main.py's evaluate_questions; yes_count = count.
RECURSIVE main_questions_of(_, _, _, _, _)
main_questions_of(attr, dist, i, asked, pokemon_set) ==
    IF i > Len(dist) THEN <<>>
    ELSE LET value == dist[i].value
             yes_count == dist[i].count
             rest  == main_questions_of(attr, dist, i + 1, asked, pokemon_set)
         IN IF <<attr, value>> \in asked THEN rest
            ELSE IF skip_medium(attr, value) THEN rest
            ELSE << [score |-> main_score(yes_count, Len(pokemon_set)),
                     key   |-> <<attr, value>>,
                     yes   |-> yes_count] >> \o rest

RECURSIVE main_all_questions(_, _, _)
main_all_questions(valid, asked, pokemon_set) ==
    IF valid = <<>> THEN <<>>
    ELSE main_questions_of(Head(valid).attr, Head(valid).dist, 1, asked, pokemon_set)
         \o main_all_questions(Tail(valid), asked, pokemon_set)

main_evaluate_questions(pokemon_set, asked) ==
    sorted_by_score(<<>>,
        main_all_questions(SelectSeq(main_distributions(pokemon_set),
                                     IsValidDistribution),
                           asked, pokemon_set))

\* Variant of question_outcome: self.asked_questions.add(attr_value) omitted.
question_outcome_not_marked(pokemon_set, asked) ==
    IF Len(pokemon_set) = 0
    THEN [key |-> <<"error", None>>, asked |-> asked]
    ELSE IF Len(pokemon_set) = 1
    THEN [key |-> <<"final_guess", pokemon_set[1]["nom"]>>, asked |-> asked]
    ELSE LET questions == evaluate_questions(pokemon_set, asked)
         IN IF questions = <<>>
            THEN [key |-> <<"final_guess", pokemon_set[1]["nom"]>>, asked |-> asked]
            ELSE [key |-> questions[1].key, asked |-> asked]

\* Variant of question_outcome: the error test reads `<= 1` instead of `== 0`.
question_outcome_error_on_one(pokemon_set, asked) ==
    IF Len(pokemon_set) <= 1
    THEN [key |-> <<"error", None>>, asked |-> asked]
    ELSE LET questions == evaluate_questions(pokemon_set, asked)
         IN IF questions = <<>>
            THEN [key |-> <<"final_guess", pokemon_set[1]["nom"]>>, asked |-> asked]
            ELSE [key |-> questions[1].key,
                  asked |-> asked \cup {questions[1].key}]

\* Variant of question_outcome: the `len == 1` branch missing.
question_outcome_no_single(pokemon_set, asked) ==
    IF Len(pokemon_set) = 0
    THEN [key |-> <<"error", None>>, asked |-> asked]
    ELSE LET questions == evaluate_questions(pokemon_set, asked)
         IN IF questions = <<>>
            THEN [key |-> <<"final_guess", pokemon_set[1]["nom"]>>, asked |-> asked]
            ELSE [key |-> questions[1].key,
                  asked |-> asked \cup {questions[1].key}]

\* Variant of question_outcome: the fallback guesses the last candidate
\* (current_pokemon_set[-1]) instead of the first.
question_outcome_guess_last(pokemon_set, asked) ==
    IF Len(pokemon_set) = 0
    THEN [key |-> <<"error", None>>, asked |-> asked]
    ELSE IF Len(pokemon_set) = 1
    THEN [key |-> <<"final_guess", pokemon_set[1]["nom"]>>, asked |-> asked]
    ELSE LET questions == evaluate_questions(pokemon_set, asked)
         IN IF questions = <<>>
            THEN [key |-> <<"final_guess", pokemon_set[Len(pokemon_set)]["nom"]>>,
                  asked |-> asked]
            ELSE [key |-> questions[1].key,
                  asked |-> asked \cup {questions[1].key}]

\* Variant of question_outcome: a final guess is recorded in the asked set
\* like a question (self.asked_questions.add(('final_guess', nom))).
question_outcome_marking_guess(pokemon_set, asked) ==
    IF Len(pokemon_set) = 0
    THEN [key |-> <<"error", None>>, asked |-> asked]
    ELSE IF Len(pokemon_set) = 1
    THEN [key |-> <<"final_guess", pokemon_set[1]["nom"]>>,
          asked |-> asked \cup {<<"final_guess", pokemon_set[1]["nom"]>>}]
    ELSE LET questions == evaluate_questions(pokemon_set, asked)
         IN IF questions = <<>>
            THEN [key |-> <<"final_guess", pokemon_set[1]["nom"]>>,
                  asked |-> asked \cup {<<"final_guess", pokemon_set[1]["nom"]>>}]
            ELSE [key |-> questions[1].key,
                  asked |-> asked \cup {questions[1].key}]

\* The (attribute, value) tuple generate_question returns, with the asked set
\* it leaves behind.
question_outcome(pokemon_set, asked) ==
    IF Len(pokemon_set) = 0
    THEN [key |-> <<"error", None>>, asked |-> asked]
    ELSE IF Len(pokemon_set) = 1
    THEN [key |-> <<"final_guess", pokemon_set[1]["nom"]>>, asked |-> asked]
    ELSE LET questions == evaluate_questions(pokemon_set, asked)
         IN IF questions = <<>>
            THEN [key |-> <<"final_guess", pokemon_set[1]["nom"]>>, asked |-> asked]
            ELSE [key |-> questions[1].key,
                  asked |-> asked \cup {questions[1].key}]

IsTerminal(key) == key[1] \in {"error", "final_guess"}

\* Variant of generate_question: the candidate list is reordered in place
\* (self.current_pokemon_set.reverse()) before the question is chosen.
generate_question_reordering ==
    /\ terminated \/ turns < MaxTurns
    /\ LET out == question_outcome(Reverse(current_pokemon_set), asked_questions)
       IN /\ result' = out.key
          /\ asked_questions' = out.asked
          /\ issued' = IF IsTerminal(out.key) THEN issued
                       ELSE issued (+) SetToBag({out.key})
          /\ turns' = IF terminated THEN turns ELSE turns + 1
          /\ terminated' = (terminated \/ IsTerminal(out.key))
          /\ pending' = ~IsTerminal(out.key)
    /\ tick' = ~tick
    /\ current_pokemon_set' = Reverse(current_pokemon_set)
    /\ UNCHANGED dataset

\* Variant of generate_question: a final guess takes the guessed candidate
\* out of the candidate set (self.current_pokemon_set.pop(0)).
generate_question_consuming ==
    /\ terminated \/ turns < MaxTurns
    /\ LET out == question_outcome(current_pokemon_set, asked_questions)
       IN /\ result' = out.key
          /\ asked_questions' = out.asked
          /\ issued' = IF IsTerminal(out.key) THEN issued
                       ELSE issued (+) SetToBag({out.key})
          /\ turns' = IF terminated THEN turns ELSE turns + 1
          /\ terminated' = (terminated \/ IsTerminal(out.key))
          /\ pending' = ~IsTerminal(out.key)
          /\ current_pokemon_set' =
                 IF out.key[1] = "final_guess" THEN Tail(current_pokemon_set)
                 ELSE current_pokemon_set
    /\ tick' = ~tick
    /\ UNCHANGED dataset

generate_question ==
    /\ terminated \/ turns < MaxTurns
    /\ LET out == question_outcome(current_pokemon_set, asked_questions)
       IN /\ result' = out.key
          /\ asked_questions' = out.asked
          /\ issued' = IF IsTerminal(out.key) THEN issued
                       ELSE issued (+) SetToBag({out.key})
          /\ turns' = IF terminated THEN turns ELSE turns + 1
          /\ terminated' = (terminated \/ IsTerminal(out.key))
          /\ pending' = ~IsTerminal(out.key)
    /\ tick' = ~tick
    /\ UNCHANGED <<dataset, current_pokemon_set>>

(* --------------------------- answer filtering -------------------------- *)

\* Variant of matches: a type question looks at the first type only
\* (value == pokemon['types'][0]).
matches_first_type_only(pokemon, attribute, value) ==
    CASE attribute = "type" -> pokemon["types"][1] = value
      [] attribute = "primary_color" ->
           Get(pokemon, "visual_primary_color", None) = value
      [] attribute = "height_category" ->
           Get(pokemon, "height_category", None) = value
      [] attribute = "weight_category" ->
           Get(pokemon, "weight_category", None) = value
      [] attribute = "can_evolve" ->
           LET is_final_form == ~(Get(pokemon, "can_evolve", False) = True)
           IN IF value = False THEN is_final_form ELSE ~is_final_form
      [] attribute = "letter" ->
           normalize_letter(first_char(pokemon["nom"])) = value
      [] OTHER -> FALSE

\* Variant of matches: the can_evolve branch ignores the framing
\* (matches = not pokemon.get('can_evolve', False) for either value).
matches_unframed(pokemon, attribute, value) ==
    CASE attribute = "type" ->
           \E i \in 1..Len(pokemon["types"]) : pokemon["types"][i] = value
      [] attribute = "primary_color" ->
           Get(pokemon, "visual_primary_color", None) = value
      [] attribute = "height_category" ->
           Get(pokemon, "height_category", None) = value
      [] attribute = "weight_category" ->
           Get(pokemon, "weight_category", None) = value
      [] attribute = "can_evolve" ->
           ~(Get(pokemon, "can_evolve", False) = True)
      [] attribute = "letter" ->
           normalize_letter(first_char(pokemon["nom"])) = value
      [] OTHER -> FALSE

\* Variant of matches: the height branch reads the weight class
\* (pokemon.get('weight_category') == value).
matches_height_from_weight(pokemon, attribute, value) ==
    CASE attribute = "type" ->
           \E i \in 1..Len(pokemon["types"]) : pokemon["types"][i] = value
      [] attribute = "primary_color" ->
           Get(pokemon, "visual_primary_color", None) = value
      [] attribute = "height_category" ->
           Get(pokemon, "weight_category", None) = value
      [] attribute = "weight_category" ->
           Get(pokemon, "weight_category", None) = value
      [] attribute = "can_evolve" ->
           LET is_final_form == ~(Get(pokemon, "can_evolve", False) = True)
           IN IF value = False THEN is_final_form ELSE ~is_final_form
      [] attribute = "letter" ->
           normalize_letter(first_char(pokemon["nom"])) = value
      [] OTHER -> FALSE

\* `matches` for one pokemon in the loop of update_pokemon_set.
matches(pokemon, attribute, value) ==
    CASE attribute = "type" ->
           \E i \in 1..Len(pokemon["types"]) : pokemon["types"][i] = value
      [] attribute = "primary_color" ->
           Get(pokemon, "visual_primary_color", None) = value
      [] attribute = "height_category" ->
           Get(pokemon, "height_category", None) = value
      [] attribute = "weight_category" ->
           Get(pokemon, "weight_category", None) = value
      [] attribute = "can_evolve" ->
           LET is_final_form == ~(Get(pokemon, "can_evolve", False) = True)
           IN IF value = False THEN is_final_form ELSE ~is_final_form
      [] attribute = "letter" ->
           normalize_letter(first_char(pokemon["nom"])) = value
      [] OTHER -> FALSE

\* Variant of filter_set: new_set starts as an alias of the current set
\* (new_set = self.current_pokemon_set) instead of an empty list.
filter_set_aliased(pokemon_set, attribute, value, answer) ==
    LET keep(pokemon) == matches(pokemon, attribute, value) = answer
    IN pokemon_set \o SelectSeq(pokemon_set, keep)

\* Variant of filter_set: the loop runs over the stored catalog
\* (`for pokemon in self.dataset`) instead of the current candidates.
filter_set_from_dataset(pokemon_set, attribute, value, answer) ==
    LET keep(pokemon) == matches(pokemon, attribute, value) = answer
    IN SelectSeq(dataset, keep)

\* Variant of filter_set: the test reads `if matches != answer`.
RECURSIVE filter_set_inverted(_, _, _, _)
filter_set_inverted(pokemon_set, attribute, value, answer) ==
    IF pokemon_set = <<>> THEN <<>>
    ELSE LET rest == filter_set_inverted(Tail(pokemon_set), attribute, value,
                                         answer)
         IN IF matches(Head(pokemon_set), attribute, value) # answer
            THEN <<Head(pokemon_set)>> \o rest
            ELSE rest

\* new_set = []; for pokemon in ...: if matches == answer: new_set.append(pokemon)
RECURSIVE filter_set(_, _, _, _)
filter_set(pokemon_set, attribute, value, answer) ==
    IF pokemon_set = <<>> THEN <<>>
    ELSE LET rest == filter_set(Tail(pokemon_set), attribute, value, answer)
         IN IF matches(Head(pokemon_set), attribute, value) = answer
            THEN <<Head(pokemon_set)>> \o rest
            ELSE rest

\* Variant of update_pokemon_set: the early return on the terminal markers
\* is missing.
update_pokemon_set_filtering_markers(attribute, value, answer) ==
    /\ tick' = ~tick
    /\ current_pokemon_set' =
           filter_set(current_pokemon_set, attribute, value, answer)
    /\ pending' = IF <<attribute, value>> = result THEN FALSE ELSE pending
    /\ UNCHANGED <<dataset, asked_questions, result, issued, turns, terminated>>

update_pokemon_set(attribute, value, answer) ==
    /\ tick' = ~tick
    /\ IF attribute = "error" \/ attribute = "final_guess"
       THEN UNCHANGED <<dataset, current_pokemon_set, asked_questions, result,
                        issued, turns, terminated, pending>>
       ELSE /\ current_pokemon_set' =
                   filter_set(current_pokemon_set, attribute, value, answer)
            /\ pending' = IF <<attribute, value>> = result THEN FALSE ELSE pending
            /\ UNCHANGED <<dataset, asked_questions, result, issued, turns,
                           terminated>>

get_remaining_count == Len(current_pokemon_set)

(* ----------------------- main.py answer filtering ---------------------- *)

\* `matches` for one pokemon in the loop of main.py's update_pokemon_set.
main_matches(pokemon, attribute, value) ==
    CASE attribute = "type" ->
           \E i \in 1..Len(pokemon["types"]) : pokemon["types"][i] = value
      [] attribute = "primary_color" ->
           Get(pokemon, "visual_primary_color", None) = value
      [] attribute = "height_category" ->
           Get(pokemon, "height_category", None) = value
      [] attribute = "weight_category" ->
           Get(pokemon, "weight_category", None) = value
      [] attribute = "evolution" ->
           ~(Get(pokemon, "can_evolve", True) = True)
      [] attribute = "letter" ->
           normalize_letter(first_char(pokemon["nom"])) = value
      [] OTHER -> FALSE

\* The value of self.current_pokemon_set after main.py's
\* update_pokemon_set(attribute, value, answer) on pokemon_set.
main_update_pokemon_set(pokemon_set, attribute, value, answer) ==
    IF attribute = "error" \/ attribute = "final_guess"
    THEN pokemon_set
    ELSE LET keep(pokemon) == main_matches(pokemon, attribute, value) = answer
         IN SelectSeq(pokemon_set, keep)

get_possible_pokemon ==
    [i \in 1..Len(current_pokemon_set) |-> current_pokemon_set[i]["nom"]]

(* ------------------------------- hosts --------------------------------- *)

\* QuestionGenerator.__init__(dataset)
InitWith(catalogs) ==
    /\ dataset \in catalogs
    /\ current_pokemon_set = dataset
    /\ asked_questions = {}
    /\ result = <<"none", None>>
    /\ issued = EmptyBag
    /\ turns = 0
    /\ terminated = FALSE
    /\ pending = FALSE
    /\ tick = FALSE
    /\ passes = 1
    /\ raised = "none"
    /\ heap = [lists |-> <<>>, sets |-> <<>>]
    /\ sessions = <<>>
    /\ host = NoHost

\* The (attribute, value) pairs of the five distributions over pokemon_set.
DistributionPairs(pokemon_set) ==
    LET ds == distributions(pokemon_set)
    IN UNION { { <<ds[a].attr, ds[a].dist[i].value>> : i \in 1..Len(ds[a].dist) } :
                 a \in 1..Len(ds) }

\* The terminal markers, with the value generate_question gives them and
\* with another one.
MarkerPairs ==
    { <<"error", None>>, <<"error", "Feu">>, <<"final_guess", "Tortank">> }

\* The arguments a host may pass to update_pokemon_set: every pair some
\* candidate holds, the key last returned, the terminal markers, and pairs
\* the generator never issues.
HostPairs ==
    DistributionPairs(current_pokemon_set)
    \cup (IF result[1] = "none" THEN {} ELSE {result})
    \cup MarkerPairs
    \cup { <<"can_evolve", True>>, <<"can_evolve", False>> }
    \cup { <<"type", "Plante">>, <<"primary_color", "unknown">>,
           <<"height_category", "unknown">>, <<"letter", "t">>,
           <<"evolution", False>> }

Init == InitWith(Catalogs({Pool}, MaxCatalog))

Next ==
    \/ generate_question /\ UNCHANGED <<derivation_vars, session_vars, host>>
    \/ \E key \in HostPairs, answer \in BOOLEAN :
           update_pokemon_set(key[1], key[2], answer) /\ UNCHANGED <<derivation_vars, session_vars, host>>

Spec == Init /\ [][Next]_vars

\* The host loop: ask, then apply the player's answer to the question asked,
\* until a terminal outcome.
InitGame == InitWith(Catalogs({Pool, Reverse(Pool)}, MaxGameCatalog))

Ask ==
    /\ ~pending /\ ~terminated /\ generate_question
    /\ UNCHANGED <<derivation_vars, session_vars, host>>

Answer ==
    /\ pending
    /\ \E answer \in BOOLEAN : update_pokemon_set(result[1], result[2], answer)
    /\ UNCHANGED <<derivation_vars, session_vars, host>>

NextGame == Ask \/ Answer

SpecGame == InitGame /\ [][NextGame]_vars

(* ------------------------- the derivation pass ------------------------- *)

\* Whether the loop body raises KeyError on this record: the evolution branch
\* reads pokemon['nom'] and pokemon['id'] without a test.
preprocess_raises(pokemon) ==
    /\ "evolution" \in DOMAIN pokemon
    /\ {"nom", "id"} \ DOMAIN pokemon # {}

\* The record as the loop body leaves it when the evolution branch raises:
\* colour, size and mass are already written.
preprocess_interrupted(pokemon) ==
    LET before == [k \in DOMAIN pokemon \ {"evolution"} |-> pokemon[k]]
    IN preprocess_pokemon(before) @@ pokemon

\* `for pokemon in dataset:` from record i on; the records are updated in
\* place, so those before a raising record stay derived.
RECURSIVE preprocess_loop(_, _)
preprocess_loop(ds, i) ==
    IF i > Len(ds) THEN [dataset |-> ds, raised |-> "none"]
    ELSE IF preprocess_raises(ds[i])
    THEN [dataset |-> [ds EXCEPT ![i] = preprocess_interrupted(ds[i])],
          raised |-> "KeyError"]
    ELSE preprocess_loop([ds EXCEPT ![i] = preprocess_pokemon(ds[i])], i + 1)

\* preprocess_pokemon_dataset(dataset, verbose) with its exceptions: after
\* the loop the verbose statistics divide by len(dataset).
preprocess_outcome(ds, verbose) ==
    LET out == preprocess_loop(ds, 1)
    IN IF out.raised = "none" /\ verbose /\ Len(ds) = 0
       THEN [dataset |-> out.dataset, raised |-> "ZeroDivisionError"]
       ELSE out

\* One run of preprocess_pokemon_dataset on the list `dataset`.
preprocess(verbose) ==
    /\ passes < MaxPasses
    /\ raised = "none"
    /\ LET out == preprocess_outcome(dataset, verbose)
       IN /\ dataset' = out.dataset
          /\ raised' = out.raised
    /\ passes' = passes + 1
    /\ UNCHANGED <<current_pokemon_set, asked_questions, result, issued, turns,
                   terminated, pending, tick>>
    /\ UNCHANGED <<session_vars, host>>

\* The raw fields of a record, each absent, null, mistyped or well-formed.
\* The id 0 is in no chain; it also stands for an id that is null or not an
\* integer, which equals no chain member either.
IdOptions == { <<>>, [id |-> 4], [id |-> 6], [id |-> 0] }

SizeOptions ==
    { <<>>, [taille |-> Null, poids |-> Str("59.0")], Size(60, 850),
      [taille |-> Str("1.7")] }

ColorOptions ==
    { <<>>, Color("Red"), [visual_attributes |-> Str("gray")],
      [visual_attributes |-> Dict([primary_color |-> Null])] }

EvolutionOptions ==
    { <<>>, [evolution |-> Null], Chain(<<>>), Chain(<<4, 5, 6>>),
      [evolution |-> Str("4,5,6")] }

RawRecords ==
    { [nom |-> "Salameche", types |-> <<"Feu">>] @@ i @@ z @@ c @@ e :
        i \in IdOptions, z \in SizeOptions, c \in ColorOptions,
        e \in EvolutionOptions }

\* The records that may follow the first one of a raw dataset.
TailRecords ==
    { [nom |-> "Tortank", types |-> <<"Eau">>] @@ i @@ Size(160, 8550) @@ e :
        i \in {<<>>, [id |-> 9]}, e \in {<<>>, Chain(<<7, 8, 9>>)} }

RECURSIVE RawCatalogs(_)
RawCatalogs(n) ==
    IF n = 0 THEN { <<>> }
    ELSE IF n = 1 THEN { <<>> } \cup { <<r>> : r \in RawRecords }
    ELSE RawCatalogs(n - 1)
         \cup { Append(ds, t) : ds \in { d \in RawCatalogs(n - 1) : Len(d) = n - 1 },
                                t \in TailRecords }

InitDerive ==
    /\ dataset \in RawCatalogs(MaxRawCatalog)
    /\ current_pokemon_set = <<>>
    /\ asked_questions = {}
    /\ result = <<"none", None>>
    /\ issued = EmptyBag
    /\ turns = 0
    /\ terminated = FALSE
    /\ pending = FALSE
    /\ tick = FALSE
    /\ passes = 0
    /\ raised = "none"
    /\ heap = [lists |-> <<>>, sets |-> <<>>]
    /\ sessions = <<>>
    /\ host = NoHost

NextDerive == \E verbose \in BOOLEAN : preprocess(verbose)

SpecDerive == InitDerive /\ [][NextDerive]_vars

(* --------------------- the three-entity scenario ----------------------- *)

\* A (small, Feu), B (large, Eau), C (small, Eau), with the attributes all
\* three share: none, a colour, a mass, or both.
ScenarioShared ==
    { <<>>, Color("red"), [poids |-> Num(850)],
      Color("red") @@ [poids |-> Num(850)] }

ScenarioRecords(shared) ==
    << Raw(4, "Salameche", <<"Feu">>, [taille |-> Num(60)] @@ shared),
       Raw(9, "Tortank", <<"Eau">>, [taille |-> Num(160)] @@ shared),
       Raw(7, "Carapuce", <<"Eau">>, [taille |-> Num(50)] @@ shared) >>

\* The scenario catalog in every order of its three records.
ScenarioCatalogs ==
    { preprocess_pokemon_dataset([i \in 1..3 |-> ScenarioRecords(shared)[order[i]]]) :
        shared \in ScenarioShared,
        order \in { o \in [1..3 -> 1..3] : \A i, j \in 1..3 : o[i] = o[j] => i = j } }

InitScenario == InitWith(ScenarioCatalogs)

SpecScenario == InitScenario /\ [][Next]_vars

(* -------------------- chains of the derivation pass -------------------- *)

\* The ids a chain is made of, and an id no chain holds.
ChainIds == {4, 5, 6}

EntityIds == ChainIds \cup {0}

RECURSIVE ChainsOfLength(_)
ChainsOfLength(n) ==
    IF n = 0 THEN { <<>> }
    ELSE { Append(c, i) : c \in ChainsOfLength(n - 1), i \in ChainIds }

\* The value of the key 'evolution': absent, null, mistyped, or a list of
\* ids of any length up to MaxChain.
ChainOptions ==
    { <<>>, [evolution |-> Null], [evolution |-> Str("4,5,6")],
      [evolution |-> Num(4)], [evolution |-> Dict([first |-> Num(4)])] }
    \cup { Chain(c) : c \in UNION { ChainsOfLength(n) : n \in 0..MaxChain } }

InitChain ==
    /\ dataset \in { << Raw(id, "Salameche", <<"Feu">>, e) >> :
                        id \in EntityIds, e \in ChainOptions }
    /\ current_pokemon_set = <<>>
    /\ asked_questions = {}
    /\ result = <<"none", None>>
    /\ issued = EmptyBag
    /\ turns = 0
    /\ terminated = FALSE
    /\ pending = FALSE
    /\ tick = FALSE
    /\ passes = 0
    /\ raised = "none"
    /\ heap = [lists |-> <<>>, sets |-> <<>>]
    /\ sessions = <<>>
    /\ host = NoHost

NextChain == \E verbose \in BOOLEAN : preprocess(verbose)

SpecChain == InitChain /\ [][NextChain]_vars

(* ----------------- measurements of the derivation pass ----------------- *)

\* Measurements around the brackets of a table, in hundredths of the unit.
Around(brackets) ==
    { brackets[k] + d : k \in DOMAIN brackets, d \in (0 - MaxMargin)..MaxMargin }

Heights == {0} \cup Around(HEIGHT_BRACKETS)

Weights == {0} \cup Around(WEIGHT_BRACKETS)

InitMeasure ==
    /\ dataset \in { << Raw(4, "Salameche", <<"Feu">>, Size(h, w)) >> :
                        h \in Heights, w \in Weights }
    /\ current_pokemon_set = <<>>
    /\ asked_questions = {}
    /\ result = <<"none", None>>
    /\ issued = EmptyBag
    /\ turns = 0
    /\ terminated = FALSE
    /\ pending = FALSE
    /\ tick = FALSE
    /\ passes = 0
    /\ raised = "none"
    /\ heap = [lists |-> <<>>, sets |-> <<>>]
    /\ sessions = <<>>
    /\ host = NoHost

NextMeasure == \E verbose \in BOOLEAN : preprocess(verbose)

SpecMeasure == InitMeasure /\ [][NextMeasure]_vars

(* --------------------- several instances, one dataset ------------------ *)

\* A list object of the heap; a slot that holds no object is not live.
ListObject(items) == [live |-> TRUE, items |-> items]

FreeSlot == [live |-> FALSE, items |-> <<>>]

\* Reference 0 is the list the host passed to the constructor; any other
\* reference is a slot of heap.lists.
DerefList(h, ds, ref) == IF ref = 0 THEN ds ELSE h.lists[ref].items

DerefSet(h, ref) == h.sets[ref]

\* The slot a new list object gets.
new_list_slot(h) == CHOOSE a \in 1..Len(h.lists) :
                        /\ ~h.lists[a].live
                        /\ \A b \in 1..(a - 1) : h.lists[b].live

\* Variant of __init__: asked_questions is one set for all instances (a
\* class attribute) instead of a set made per instance.
QuestionGenerator_init_shared_asked ==
    /\ Len(sessions) < MaxSessions
    /\ LET a == new_list_slot(heap)
       IN /\ heap' = [lists |-> [heap.lists EXCEPT ![a] = ListObject(dataset)],
                      sets |-> IF heap.sets = <<>> THEN <<{}>> ELSE heap.sets]
          /\ sessions' = Append(sessions,
                 [dataset |-> 0, current_pokemon_set |-> a,
                  asked_questions |-> 1, result |-> <<"none", None>>])
    /\ UNCHANGED <<dataset, current_pokemon_set, asked_questions, result,
                   issued, turns, terminated, pending, tick, derivation_vars, host>>

\* QuestionGenerator.__init__(dataset): self.dataset is the caller's list,
\* current_pokemon_set a new list (dataset.copy()), asked_questions a new set.
QuestionGenerator_init ==
    /\ Len(sessions) < MaxSessions
    /\ LET a == new_list_slot(heap)
       IN /\ heap' = [lists |-> [heap.lists EXCEPT ![a] = ListObject(dataset)],
                      sets |-> Append(heap.sets, {})]
          /\ sessions' = Append(sessions,
                 [dataset |-> 0, current_pokemon_set |-> a,
                  asked_questions |-> Len(heap.sets) + 1,
                  result |-> <<"none", None>>])
    /\ UNCHANGED <<dataset, current_pokemon_set, asked_questions, result,
                   issued, turns, terminated, pending, tick, derivation_vars, host>>

\* sessions[s].generate_question(): asked_questions.add changes the set
\* object in place.
session_generate_question(s) ==
    /\ LET self == sessions[s]
           out == question_outcome(
                      DerefList(heap, dataset, self.current_pokemon_set),
                      DerefSet(heap, self.asked_questions))
       IN /\ heap' = [heap EXCEPT !.sets[self.asked_questions] = out.asked]
          /\ sessions' = [sessions EXCEPT ![s].result = out.key]
    /\ UNCHANGED <<dataset, current_pokemon_set, asked_questions, result,
                   issued, turns, terminated, pending, tick, derivation_vars, host>>

\* sessions[s].update_pokemon_set(attribute, value, answer): new_set is a new
\* list object; the list current_pokemon_set referred to loses its last
\* reference.
session_update_pokemon_set(s, attribute, value, answer) ==
    /\ IF attribute = "error" \/ attribute = "final_guess"
       THEN UNCHANGED session_vars
       ELSE LET self == sessions[s]
                old == self.current_pokemon_set
                a == new_list_slot(heap)
                new_set == filter_set(DerefList(heap, dataset, old),
                                      attribute, value, answer)
            IN /\ heap' = [heap EXCEPT !.lists =
                              [i \in 1..Len(heap.lists) |->
                                  IF i = a THEN ListObject(new_set)
                                  ELSE IF i = old THEN FreeSlot
                                  ELSE heap.lists[i]]]
               /\ sessions' = [sessions EXCEPT ![s].current_pokemon_set = a]
    /\ UNCHANGED <<dataset, current_pokemon_set, asked_questions, result,
                   issued, turns, terminated, pending, tick, derivation_vars, host>>

\* The pairs the host of one instance passes back: the key the instance last
\* returned, and the terminal markers.
SessionPairs(s) ==
    (IF sessions[s].result[1] = "none" THEN {} ELSE {sessions[s].result})
    \cup MarkerPairs

InitSessions ==
    /\ dataset \in Catalogs({Pool}, MaxSessionCatalog)
    /\ current_pokemon_set = <<>>
    /\ asked_questions = {}
    /\ result = <<"none", None>>
    /\ issued = EmptyBag
    /\ turns = 0
    /\ terminated = FALSE
    /\ pending = FALSE
    /\ tick = FALSE
    /\ passes = 1
    /\ raised = "none"
    /\ heap = [lists |-> [i \in 1..(MaxSessions + 1) |-> FreeSlot], sets |-> <<>>]
    /\ sessions = <<>>
    /\ host = NoHost

NextSessions ==
    \/ QuestionGenerator_init
    \/ \E s \in 1..Len(sessions) : session_generate_question(s)
    \/ \E s \in 1..Len(sessions) :
           \E key \in SessionPairs(s), answer \in BOOLEAN :
               session_update_pokemon_set(s, key[1], key[2], answer)

SpecSessions == InitSessions /\ [][NextSessions]_vars


(* ------------------------- main.py, the engine ------------------------- *)

\* can_evolve of main.py: `return id != evolution[-1]`.
main_can_evolve(evolution, id) ==
    IF ~Truthy(evolution) \/ evolution.t # "list" THEN False
    ELSE IF id # evolution.v[Len(evolution.v)] THEN True ELSE False

\* One iteration of the loop of main.py's preprocess_pokemon_dataset: the
\* colour, height and weight branches are those of models.py.
main_preprocess_pokemon(pokemon) ==
    IF "evolution" \in DOMAIN pokemon
    THEN [can_evolve |-> main_can_evolve(pokemon["evolution"], pokemon["id"])]
         @@ preprocess_pokemon(pokemon)
    ELSE preprocess_pokemon(pokemon)

\* The datasets main.py's preprocessing yields from the pool.
MainCatalogs(n) ==
    { [i \in 1..Cardinality(idx) |-> main_preprocess_pokemon(Pick(Pool, idx, 1)[i])] :
        idx \in { x \in SUBSET (1..Len(Pool)) : Cardinality(x) <= n } }

\* The (attribute, value) tuple main.py's generate_question returns, with the
\* asked set it leaves behind.
main_question_outcome(pokemon_set, asked) ==
    IF Len(pokemon_set) = 0
    THEN [key |-> <<"error", None>>, asked |-> asked]
    ELSE IF Len(pokemon_set) = 1
    THEN [key |-> <<"final_guess", pokemon_set[1]["nom"]>>, asked |-> asked]
    ELSE LET questions == main_evaluate_questions(pokemon_set, asked)
         IN IF questions = <<>>
            THEN [key |-> <<"final_guess", pokemon_set[1]["nom"]>>, asked |-> asked]
            ELSE [key |-> questions[1].key,
                  asked |-> asked \cup {questions[1].key}]

(* ------------- play_game.py and play_game_with_voice.py --------------- *)

\* play_game.py imports QuestionGenerator from pokenator.main,
\* play_game_with_voice.py from pokenator.models.
engine_question_outcome(program, pokemon_set, asked) ==
    IF program = "play_game" THEN main_question_outcome(pokemon_set, asked)
    ELSE question_outcome(pokemon_set, asked)

engine_update_pokemon_set(program, pokemon_set, attribute, value, answer) ==
    IF program = "play_game"
    THEN main_update_pokemon_set(pokemon_set, attribute, value, answer)
    ELSE IF attribute = "error" \/ attribute = "final_guess" THEN pokemon_set
    ELSE filter_set(pokemon_set, attribute, value, answer)

\* A game about to start. pc: where the program stands; outcome: the terminal
\* marker the current game has returned; answers: the answers read inside the
\* game loop since that marker; calls: the generate_question calls made since
\* it; prompts: the answers read after the loop; games: the games started.
NewGame(program, games) ==
    [program |-> program, pc |-> "generate", outcome |-> "none",
     answers |-> 0, calls |-> 0, prompts |-> 0, games |-> games]

\* `game.generate_question()` and the branches on its attribute.
play_generate ==
    /\ host.pc = "generate"
    /\ LET out == engine_question_outcome(host.program, current_pokemon_set,
                                          asked_questions)
           voice == host.program = "play_game_with_voice"
       IN /\ result' = out.key
          /\ asked_questions' = out.asked
          /\ host' = [host EXCEPT
                 !.pc = CASE out.key[1] = "error" ->
                               IF voice THEN "replay" ELSE "done"
                          [] out.key[1] = "final_guess" ->
                               IF voice THEN "replay" ELSE "guess"
                          [] OTHER -> "answer",
                 !.outcome = IF IsTerminal(out.key) THEN out.key[1] ELSE @,
                 !.calls = IF host.outcome # "none" THEN @ + 1 ELSE @]
    /\ UNCHANGED <<dataset, current_pokemon_set, issued, turns, terminated,
                   pending, tick, derivation_vars, session_vars>>

\* The inner `while True` that reads o/n and calls update_pokemon_set.
play_answer ==
    /\ host.pc = "answer"
    /\ \E answer \in BOOLEAN :
           current_pokemon_set' =
               engine_update_pokemon_set(host.program, current_pokemon_set,
                                         result[1], result[2], answer)
    /\ host' = [host EXCEPT !.pc = "generate"]
    /\ UNCHANGED <<dataset, asked_questions, result, issued, turns, terminated,
                   pending, tick, derivation_vars, session_vars>>

\* play_game.py, branch 'final_guess': one input(), then break.
play_final_answer ==
    /\ host.pc = "guess"
    /\ host' = [host EXCEPT !.pc = "done", !.answers = @ + 1]
    /\ UNCHANGED <<dataset, current_pokemon_set, asked_questions, result,
                   issued, turns, terminated, pending, tick, derivation_vars,
                   session_vars>>

\* play_game_with_voice.py after the loop: one input(); on yes main() runs
\* again with a new QuestionGenerator.
play_again ==
    /\ host.pc = "replay"
    /\ \E again \in BOOLEAN :
           IF again
           THEN /\ host.games < MaxGames
                /\ host' = NewGame(host.program, host.games + 1)
                /\ current_pokemon_set' = dataset
                /\ asked_questions' = {}
                /\ result' = <<"none", None>>
           ELSE /\ host' = [host EXCEPT !.pc = "done", !.prompts = @ + 1]
                /\ UNCHANGED <<current_pokemon_set, asked_questions, result>>
    /\ UNCHANGED <<dataset, issued, turns, terminated, pending, tick,
                   derivation_vars, session_vars>>

InitPlay ==
    /\ \E program \in {"play_game", "play_game_with_voice"} :
           /\ host = NewGame(program, 1)
           /\ dataset \in IF program = "play_game" THEN MainCatalogs(MaxCatalog)
                           ELSE { c \in Catalogs({Pool}, MaxCatalog) : Len(c) > 0 }
    /\ current_pokemon_set = dataset
    /\ asked_questions = {}
    /\ result = <<"none", None>>
    /\ issued = EmptyBag
    /\ turns = 0
    /\ terminated = FALSE
    /\ pending = FALSE
    /\ tick = FALSE
    /\ passes = 1
    /\ raised = "none"
    /\ heap = [lists |-> <<>>, sets |-> <<>>]
    /\ sessions = <<>>

NextPlay == play_generate \/ play_answer \/ play_final_answer \/ play_again

SpecPlay == InitPlay /\ [][NextPlay]_vars


(* ---------------------------- test_game.py ---------------------------- *)

\* max_questions = 20  # Safety limit
max_questions == 20

\* The `answer = (...)` expression of simulate_game.
simulate_answer(target, attribute, value) ==
    CASE attribute = "type" ->
           \E i \in 1..Len(target["types"]) : target["types"][i] = value
      [] attribute = "visual_primary_color" ->
           Get(target, "visual_primary_color", None) = value
      [] attribute = "height_category" ->
           Get(target, "height_category", None) = value
      [] attribute = "weight_category" ->
           Get(target, "weight_category", None) = value
      [] OTHER -> FALSE

\* simulate_game(target_pokemon) about to enter its loop. question_count:
\* the generate_question calls made; real: those that returned a question;
\* terminal: those that returned a final guess or an error.
NewSimulation(target) ==
    [program |-> "simulate_game", pc |-> "generate", target |-> target,
     question_count |-> 0, real |-> 0, terminal |-> 0, success |-> FALSE]

\* The head of the loop: generate_question, the count, the three exits.
sim_generate ==
    /\ host.pc = "generate"
    /\ LET out == main_question_outcome(current_pokemon_set, asked_questions)
           metadata == out.key
           count == host.question_count + 1
       IN /\ result' = metadata
          /\ asked_questions' = out.asked
          /\ host' = [host EXCEPT
                 !.question_count = count,
                 !.real = IF IsTerminal(metadata) THEN @ ELSE @ + 1,
                 !.terminal = IF IsTerminal(metadata) THEN @ + 1 ELSE @,
                 !.success = metadata[1] = "final_guess"
                             /\ metadata[2] = host.target["nom"],
                 !.pc = IF metadata[1] = "final_guess" THEN "returned"
                        ELSE IF count > max_questions THEN "returned"
                        ELSE "update"]
    /\ UNCHANGED <<dataset, current_pokemon_set, issued, turns, terminated,
                   pending, tick, derivation_vars, session_vars>>

\* analyze_question_split divides by len(generator.current_pokemon_set):
\* ZeroDivisionError on an empty candidate set (the metadata tuple is never
\* falsy, so the early `return None` is not taken).
analyze_question_split_raises(pokemon_set, question_metadata) ==
    Len(pokemon_set) = 0

\* The tail of the loop: analyze_question_split, the answer for the target,
\* update_pokemon_set.  An exception ends simulate_game.
sim_update ==
    /\ host.pc = "update"
    /\ IF analyze_question_split_raises(current_pokemon_set, result)
       THEN /\ host' = [host EXCEPT !.pc = "raised"]
            /\ UNCHANGED current_pokemon_set
       ELSE /\ LET attribute == result[1]
                   value == result[2]
                   answer == simulate_answer(host.target, attribute, value)
               IN current_pokemon_set' =
                      main_update_pokemon_set(current_pokemon_set, attribute,
                                              value, answer)
            /\ host' = [host EXCEPT !.pc = "generate"]
    /\ UNCHANGED <<dataset, asked_questions, result, issued, turns, terminated,
                   pending, tick, derivation_vars, session_vars>>

\* Two more records of the shape of the pool's: the same two types, colour,
\* size class and mass class.
SimPool ==
    Pool \o << Raw(16, "Roucool", <<"Normal", "Vol">>,
                   Color("brown") @@ Size(30, 180) @@ Chain(<<16, 17, 18>>)),
               Raw(21, "Piafabec", <<"Normal", "Vol">>,
                   Color("brown") @@ Size(30, 200) @@ Chain(<<21, 22>>)) >>

\* The datasets load_dataset yields from at most n records of SimPool.
SimCatalogs(n) ==
    { [i \in 1..Cardinality(idx) |-> main_preprocess_pokemon(Pick(SimPool, idx, 1)[i])] :
        idx \in { x \in SUBSET (1..Len(SimPool)) : Cardinality(x) <= n /\ x # {} } }

LongNames ==
    << "N01", "N02", "N03", "N04", "N05", "N06", "N07", "N08", "N09", "N10",
       "N11", "N12", "N13", "N14", "N15", "N16", "N17", "N18", "N19", "N20",
       "N21", "N22", "N23", "N24" >>

LongColors ==
    << "c01", "c02", "c03", "c04", "c05", "c06", "c07", "c08", "c09", "c10",
       "c11", "c12", "c13", "c14", "c15", "c16", "c17", "c18", "c19", "c20",
       "c21", "c22", "c23", "c24" >>

\* A dataset of n records that differ in colour only: every question splits
\* one candidate off, so a game on it asks as many questions as there are
\* candidates to remove.
LongCatalog(n) ==
    [i \in 1..n |->
        main_preprocess_pokemon(Raw(i, LongNames[i], <<"Normal">>,
                                    Color(LongColors[i])))]

\* The positions of the targets simulate_game is called with: every record
\* of a short dataset, the first and the last of a long one.
SimTargets(ds) ==
    IF Len(ds) > MaxSimCatalog THEN {1, Len(ds)} ELSE 1..Len(ds)

InitSimulate ==
    /\ dataset \in SimCatalogs(MaxSimCatalog)
                  \cup { LongCatalog(n) : n \in (MaxLongCatalog - 1)..MaxLongCatalog }
    /\ \E i \in SimTargets(dataset) : host = NewSimulation(dataset[i])
    /\ current_pokemon_set = dataset
    /\ asked_questions = {}
    /\ result = <<"none", None>>
    /\ issued = EmptyBag
    /\ turns = 0
    /\ terminated = FALSE
    /\ pending = FALSE
    /\ tick = FALSE
    /\ passes = 1
    /\ raised = "none"
    /\ heap = [lists |-> <<>>, sets |-> <<>>]
    /\ sessions = <<>>

NextSimulate == sim_generate \/ sim_update

SpecSimulate == InitSimulate /\ [][NextSimulate]_vars


(* ------------------- a host that answers for a target ------------------ *)

\* The host of models.py's QuestionGenerator thinks of one entity of the
\* catalog and answers each question with what is true of that entity.
TruthfulHost(target) == [program |-> "truthful_host", target |-> target]

\* Whether the question (attribute, value) is true of the entity: "is it of
\* type v", "is its colour / size / mass v", "can it still evolve" (value
\* True) or "is it a final form" (value False).
TrueOf(target, attribute, value) ==
    CASE attribute = "type" -> value \in { target["types"][i] : i \in 1..Len(target["types"]) }
      [] attribute = "primary_color" -> target["visual_primary_color"] = value
      [] attribute = "height_category" -> target["height_category"] = value
      [] attribute = "weight_category" -> target["weight_category"] = value
      [] attribute = "can_evolve" ->
           LET evolves == "can_evolve" \in DOMAIN target /\ target["can_evolve"] = True
           IN IF value = True THEN evolves ELSE ~evolves

InitTruthful ==
    /\ dataset \in Catalogs({Pool, Reverse(Pool)}, MaxGameCatalog)
    /\ Len(dataset) > 0
    /\ \E i \in 1..Len(dataset) : host = TruthfulHost(dataset[i])
    /\ current_pokemon_set = dataset
    /\ asked_questions = {}
    /\ result = <<"none", None>>
    /\ issued = EmptyBag
    /\ turns = 0
    /\ terminated = FALSE
    /\ pending = FALSE
    /\ tick = FALSE
    /\ passes = 1
    /\ raised = "none"
    /\ heap = [lists |-> <<>>, sets |-> <<>>]
    /\ sessions = <<>>

TruthfulAnswer ==
    /\ pending
    /\ update_pokemon_set(result[1], result[2],
                          TrueOf(host.target, result[1], result[2]))
    /\ UNCHANGED <<derivation_vars, session_vars, host>>

NextTruthful == Ask \/ TruthfulAnswer

SpecTruthful == InitTruthful /\ [][NextTruthful]_vars


(* ------------------ a host whose answers are recorded ------------------ *)

\* The question/answer loop with the answers given so far kept beside the
\* generator: applied holds one <<attribute, value, answer>> per
\* update_pokemon_set call that filtered.
RecordingHost(applied) == [program |-> "recording_host", applied |-> applied]

InitRecorded ==
    /\ dataset \in Catalogs({Pool, Reverse(Pool)}, MaxRecordedCatalog)
    /\ host = RecordingHost(<<>>)
    /\ current_pokemon_set = dataset
    /\ asked_questions = {}
    /\ result = <<"none", None>>
    /\ issued = EmptyBag
    /\ turns = 0
    /\ terminated = FALSE
    /\ pending = FALSE
    /\ tick = FALSE
    /\ passes = 1
    /\ raised = "none"
    /\ heap = [lists |-> <<>>, sets |-> <<>>]
    /\ sessions = <<>>

RecordedAsk ==
    /\ ~pending /\ ~terminated /\ generate_question
    /\ UNCHANGED <<derivation_vars, session_vars, host>>

RecordedAnswer ==
    /\ pending
    /\ \E answer \in BOOLEAN :
          /\ update_pokemon_set(result[1], result[2], answer)
          /\ host' = RecordingHost(Append(host.applied,
                                          <<result[1], result[2], answer>>))
    /\ UNCHANGED <<derivation_vars, session_vars>>

NextRecorded == RecordedAsk \/ RecordedAnswer

SpecRecorded == InitRecorded /\ [][NextRecorded]_vars


(* ------------- a host that calls again after the game's end ------------ *)

\* The methods called in any order, with the terminal outcome that
\* generate_question last returned kept beside the generator for as long as
\* no update_pokemon_set call has filtered since (`standing`), and the number
\* of generate_question calls made since it (`again`).
RepeatingHost(standing, again) ==
    [program |-> "repeating_host", standing |-> standing, again |-> again]

NoOutcome == <<"none", None>>

InitRepeat ==
    /\ dataset \in Catalogs({Pool}, MaxCatalog)
    /\ host = RepeatingHost(NoOutcome, 0)
    /\ current_pokemon_set = dataset
    /\ asked_questions = {}
    /\ result = <<"none", None>>
    /\ issued = EmptyBag
    /\ turns = 0
    /\ terminated = FALSE
    /\ pending = FALSE
    /\ tick = FALSE
    /\ passes = 1
    /\ raised = "none"
    /\ heap = [lists |-> <<>>, sets |-> <<>>]
    /\ sessions = <<>>

RepeatGenerate ==
    /\ host.again < MaxRepeat
    /\ generate_question
    /\ host' = IF ~IsTerminal(result') THEN RepeatingHost(NoOutcome, 0)
               ELSE IF host.standing = NoOutcome THEN RepeatingHost(result', 0)
               ELSE RepeatingHost(host.standing, host.again + 1)
    /\ UNCHANGED <<derivation_vars, session_vars>>

RepeatUpdate ==
    /\ \E key \in HostPairs, answer \in BOOLEAN :
          /\ update_pokemon_set(key[1], key[2], answer)
          /\ host' = IF key[1] = "error" \/ key[1] = "final_guess" THEN host
                     ELSE RepeatingHost(NoOutcome, 0)
    /\ UNCHANGED <<derivation_vars, session_vars>>

NextRepeat == RepeatGenerate \/ RepeatUpdate

SpecRepeat == InitRepeat /\ [][NextRepeat]_vars


(* ------------- the generators of main.py and models.py ----------------- *)

\* One raw dataset handed to both programs: models.py's generator lives in
\* the generator variables, main.py's in this record.
BothGenerators(pokemon_set, asked, outcome) ==
    [program |-> "both_generators", current_pokemon_set |-> pokemon_set,
     asked_questions |-> asked, result |-> outcome]

\* pokemon.get('can_evolve', False) is the same for every record.
SameProgressionFlag(pokemon_set) ==
    \A i, j \in 1..Len(pokemon_set) :
        Get(pokemon_set[i], "can_evolve", False)
            = Get(pokemon_set[j], "can_evolve", False)

\* The raw datasets of at most n records, in either file order.
RawDatasets(n) ==
    { Pick(order, idx, 1) :
        order \in {Pool, Reverse(Pool)},
        idx \in { x \in SUBSET (1..Len(Pool)) : Cardinality(x) <= n } }

\* Raw datasets of n records without a chain that differ in their single
\* type only (same colour, size and mass).
PlainDatasets(n) ==
    { [i \in 1..n |-> Raw(i, Pool[i]["nom"], <<types[i]>>,
                          Color("brown") @@ Size(100, 2000))] :
        types \in [1..n -> {"Normal", "Feu"}] }

main_preprocess_pokemon_dataset(ds) ==
    [i \in 1..Len(ds) |-> main_preprocess_pokemon(ds[i])]

InitBoth ==
    /\ \E raw \in RawDatasets(MaxBothCatalog)
                    \cup PlainDatasets(MaxPlainCatalog) :
          /\ dataset = preprocess_pokemon_dataset(raw)
          /\ host = BothGenerators(main_preprocess_pokemon_dataset(raw), {},
                                   <<"none", None>>)
    /\ SameProgressionFlag(dataset)
    /\ SameProgressionFlag(host.current_pokemon_set)
    /\ current_pokemon_set = dataset
    /\ asked_questions = {}
    /\ result = <<"none", None>>
    /\ issued = EmptyBag
    /\ turns = 0
    /\ terminated = FALSE
    /\ pending = FALSE
    /\ tick = FALSE
    /\ passes = 1
    /\ raised = "none"
    /\ heap = [lists |-> <<>>, sets |-> <<>>]
    /\ sessions = <<>>

\* generate_question on both generators.
BothAsk ==
    /\ ~pending /\ ~terminated /\ generate_question
    /\ LET out == main_question_outcome(host.current_pokemon_set,
                                        host.asked_questions)
       IN host' = BothGenerators(host.current_pokemon_set, out.asked, out.key)
    /\ UNCHANGED <<derivation_vars, session_vars>>

\* The same answer applied to each generator's own question.
BothAnswer ==
    /\ pending
    /\ \E answer \in BOOLEAN :
          /\ update_pokemon_set(result[1], result[2], answer)
          /\ host' = BothGenerators(
                         main_update_pokemon_set(host.current_pokemon_set,
                                                 host.result[1], host.result[2],
                                                 answer),
                         host.asked_questions, host.result)
    /\ UNCHANGED <<derivation_vars, session_vars>>

NextBoth == BothAsk \/ BothAnswer

SpecBoth == InitBoth /\ [][NextBoth]_vars


(* ------------------------------ properties ----------------------------- *)

Elements(s) == { s[i] : i \in 1..Len(s) }

\* The position of e in s (the entities of a catalog are pairwise distinct).
Position(s, e) == CHOOSE i \in 1..Len(s) : s[i] = e

\* after lists elements of before, each at most once, in the order of before.
IsSubsequence(after, before) ==
    /\ \A i \in 1..Len(after) : after[i] \in Elements(before)
    /\ \A i, j \in 1..Len(after) :
           i < j => Position(before, after[i]) < Position(before, after[j])

\* The predicate a yes answer to (attr, val) asserts of an entity, for the
\* category, colour, size and mass attributes.
Holds(e, attr, val) ==
    CASE attr = "type"            -> val \in Elements(e["types"])
      [] attr = "primary_color"   -> e["visual_primary_color"] = val
      [] attr = "height_category" -> e["height_category"] = val
      [] attr = "weight_category" -> e["weight_category"] = val

FilterAttributes == {"type", "primary_color", "height_category", "weight_category"}

\* C1 (monotonic shrink): no call, whatever its arguments, leaves more
\* candidates than it found; the candidate count never grows during a game.
C1_MonotonicShrink ==
    [][Len(current_pokemon_set') <= Len(current_pokemon_set)]_vars

\* An answer has been applied and has removed some candidates but not all.
C1_Witness ==
    /\ Len(current_pokemon_set) > 0
    /\ Len(current_pokemon_set) < Len(dataset)

\* C2 (filter correctness): after an answer to (attr, val) on category,
\* colour, size or mass, the survivors are exactly the candidates for which
\* the predicate of (attr, val) has the truth value of the answer, and they
\* keep their relative order.
C2_FilterCorrectness ==
    [][\A key \in HostPairs, answer \in BOOLEAN :
          (key[1] \in FilterAttributes
           /\ update_pokemon_set(key[1], key[2], answer))
          => /\ \A e \in Elements(current_pokemon_set') :
                    Holds(e, key[1], key[2]) = answer
             /\ \A e \in Elements(current_pokemon_set) :
                    Holds(e, key[1], key[2]) = answer
                    => e \in Elements(current_pokemon_set')
             /\ IsSubsequence(current_pokemon_set', current_pokemon_set)]_vars

\* A yes answer to a category, colour, size or mass question has been
\* applied: it removed some candidates and kept two or more, all of which
\* satisfy the predicate.
C2_Witness ==
    /\ ~pending
    /\ turns >= 1
    /\ result[1] \in FilterAttributes
    /\ Len(current_pokemon_set) >= 2
    /\ Len(current_pokemon_set) < Len(dataset)
    /\ \A e \in Elements(current_pokemon_set) : Holds(e, result[1], result[2])

Registry ==
    {"type", "primary_color", "height_category", "weight_category", "can_evolve"}

\* The values of attribute a an entity holds: its categories, its colour,
\* size or mass class unless unknown, its progression flag (false when the
\* entity has none).
EntityValues(e, a) ==
    CASE a = "type"            -> Elements(e["types"])
      [] a = "primary_color"   -> {e["visual_primary_color"]} \ {"unknown"}
      [] a = "height_category" -> {e["height_category"]} \ {"unknown"}
      [] a = "weight_category" -> {e["weight_category"]} \ {"unknown"}
      [] a = "can_evolve"      ->
           {IF "can_evolve" \in DOMAIN e THEN e["can_evolve"] ELSE False}

AttributeValues(a, s) == UNION { EntityValues(e, a) : e \in Elements(s) }

\* The distinct (attribute, value) pairs present among the entities of s.
PresentPairs(s) ==
    UNION { { <<a, v>> : v \in AttributeValues(a, s) } : a \in Registry }

\* The pairs next_question may ask about: the attribute discriminates (two
\* distinct values or more), the value is not the middle bucket of size or
\* mass, and the pair has not been asked.
EligiblePairs(s, asked) ==
    { p \in PresentPairs(s) :
        /\ Cardinality(AttributeValues(p[1], s)) >= 2
        /\ ~(p[1] \in {"height_category", "weight_category"} /\ p[2] = "medium")
        /\ p \notin asked }

\* C3 (no repeat): no (attribute, value) pair is returned as a question
\* twice in one session.
C3_NoRepeat ==
    \A key \in BagToSet(issued) : CopiesIn(key, issued) = 1

\* Three questions have been returned in one session.
C3_Witness ==
    /\ BagCardinality(issued) >= 3
    /\ ~IsTerminal(result)

\* C4 (termination): with N the number of distinct (attribute, value) pairs
\* of the catalog, a session that has made N calls of next_question without a
\* terminal outcome gets one at the next call: the first terminal outcome
\* comes at call N + 1 at the latest.
C4_Termination ==
    LET N == Cardinality(PresentPairs(dataset))
    IN /\ ~terminated => turns <= N
       /\ terminated => turns <= N + 1

\* A game of the loop ended at its fourth call, after three answers.
C4_Witness ==
    /\ terminated
    /\ turns >= 4
    /\ BagCardinality(issued) = turns - 1

\* C5 (empty candidate set): next_question returns ('error', None) exactly
\* when the candidate set is empty; then remaining_count() is 0 and neither
\* the candidate set nor the asked set changes.
C5_ErrorIffEmpty ==
    [][generate_question
       => /\ (result'[1] = "error") <=> (Len(current_pokemon_set) = 0)
          /\ result'[1] = "error"
             => /\ result' = <<"error", None>>
                /\ get_remaining_count' = 0
                /\ current_pokemon_set' = current_pokemon_set
                /\ asked_questions' = asked_questions]_vars

\* The answers emptied the candidate set of a non-empty catalog and
\* next_question reported it.
C5_Witness ==
    /\ result = <<"error", None>>
    /\ Len(dataset) > 0
    /\ get_remaining_count = 0

\* C6 (single candidate): with exactly one candidate, next_question returns
\* the final guess naming it and asks nothing; on a one-entity catalog this is
\* the first outcome and the asked set stays empty.
C6_SingleCandidateGuess ==
    [][(generate_question /\ Len(current_pokemon_set) = 1)
       => /\ result' = <<"final_guess", current_pokemon_set[1]["nom"]>>
          /\ asked_questions' = asked_questions
          /\ issued' = issued
          /\ (Len(dataset) = 1 /\ turns = 0) => asked_questions' = {}]_vars

\* A session on a one-entity catalog whose first call returned the guess.
C6_Witness ==
    /\ Len(dataset) = 1
    /\ turns = 1
    /\ result = <<"final_guess", dataset[1]["nom"]>>
    /\ asked_questions = {}
    /\ current_pokemon_set = dataset

\* C7 (fallback guess): with two candidates or more and no eligible question,
\* next_question returns the final guess naming the first candidate and adds
\* nothing to the asked set.
C7_FallbackGuess ==
    [][(/\ generate_question
        /\ Len(current_pokemon_set) >= 2
        /\ EligiblePairs(current_pokemon_set, asked_questions) = {})
       => /\ result' = <<"final_guess", current_pokemon_set[1]["nom"]>>
          /\ asked_questions' = asked_questions
          /\ current_pokemon_set' = current_pokemon_set]_vars

\* A guess was returned while two or more candidates remained, after every
\* question about them had been asked.
C7_Witness ==
    /\ result[1] = "final_guess"
    /\ Len(current_pokemon_set) >= 2
    /\ asked_questions # {}
    /\ EligiblePairs(current_pokemon_set, asked_questions) = {}
    /\ result[2] = current_pokemon_set[1]["nom"]

\* The question candidates the selector scores in the current state.
ScoredCandidates ==
    IF Len(current_pokemon_set) >= 2
    THEN Elements(evaluate_questions(current_pokemon_set, asked_questions))
    ELSE {}

\* The candidates the inline scorer of main.py scores in the current state.
MainScoredCandidates ==
    IF Len(current_pokemon_set) >= 2
    THEN Elements(main_evaluate_questions(current_pokemon_set, asked_questions))
    ELSE {}

\* 0 <= yes_count <= total, total > 0, 0 <= score <= 0.5, and score = 0
\* exactly when 2 * yes_count = total.
InBounds(score, yes_count, total) ==
    /\ total > 0
    /\ 0 <= yes_count /\ yes_count <= total
    /\ score.den > 0
    /\ 0 <= score.num
    /\ 2 * score.num <= score.den
    /\ 2 * score.num = score.den => score.rnd = 0
    /\ (score.num = 0 /\ score.rnd = 0) <=> (2 * yes_count = total)

\* C8 (score bounds): every scored candidate has 0 <= yes_count <= total,
\* total > 0 and 0 <= score <= 0.5, and its score is 0 exactly when
\* 2 * yes_count = total.
C8_ScoreBounds ==
    /\ \A q \in ScoredCandidates :
           InBounds(q.score,
                    score_yes_count(q.key[1], q.key[2], current_pokemon_set),
                    Len(current_pokemon_set))
    /\ \A q \in MainScoredCandidates :
           InBounds(q.score, q.yes, Len(current_pokemon_set))

\* After a question, four candidates or more remain and a perfect split
\* (score 0), an uneven split and a degenerate one (score 0.5) are scored.
C8_Witness ==
    /\ turns >= 1
    /\ Len(current_pokemon_set) >= 4
    /\ \E q \in ScoredCandidates : q.score.num = 0
    /\ \E q \in ScoredCandidates : 0 < q.score.num /\ 2 * q.score.num < q.score.den
    /\ \E q \in ScoredCandidates : 2 * q.score.num = q.score.den
    /\ MainScoredCandidates # {}

\* The number of candidates the distribution of attribute p[1] counts for
\* the value p[2].
YesCount(p, s) ==
    Cardinality({ i \in 1..Len(s) : p[2] \in EntityValues(s[i], p[1]) })

\* |0.5 - yes_count/total| in units of 1/(2 * total).
SplitDistance(p, s) == Abs(Len(s) - 2 * YesCount(p, s))

\* C9 (best split): while a returned question is unanswered, no other
\* eligible pair of the current state has a strictly smaller score
\* |0.5 - yes_count/total|, yes_count being the distribution count.
C9_BestSplit ==
    pending => \A p \in EligiblePairs(current_pokemon_set, asked_questions) :
                   SplitDistance(p, current_pokemon_set)
                       >= SplitDistance(result, current_pokemon_set)

\* C10 (no 'medium' question): next_question never asks about the value
\* 'medium' of size_class or mass_class.
C10_NeverMedium ==
    /\ <<"height_category", "medium">> \notin BagToSet(issued)
    /\ <<"weight_category", "medium">> \notin BagToSet(issued)
    /\ result \notin {<<"height_category", "medium">>, <<"weight_category", "medium">>}

\* A mass question was returned although 'medium' was a value of the mass
\* distribution and had not been asked.
C10_Witness ==
    /\ pending
    /\ result[1] = "weight_category"
    /\ <<"weight_category", "medium">> \in PresentPairs(current_pokemon_set)

\* The key of the derived field behind a question attribute.
FieldOf(attr) == IF attr = "primary_color" THEN "visual_primary_color" ELSE attr

UnknownAttributes == {"primary_color", "height_category", "weight_category"}

CounterValues(counts) == { counts[i].value : i \in 1..Len(counts) }

\* C11 (unknown excluded): the colour, size and mass distributions of the
\* candidate set have no entry for 'unknown', and no question returned has
\* the value 'unknown'.
C11_UnknownExcluded ==
    /\ "unknown" \notin CounterValues(
           get_visual_attribute_distribution(current_pokemon_set, "primary_color"))
    /\ "unknown" \notin CounterValues(get_height_distribution(current_pokemon_set))
    /\ "unknown" \notin CounterValues(get_weight_distribution(current_pokemon_set))
    /\ \A key \in BagToSet(issued) : key[2] # "unknown"
    /\ result[2] # "unknown"

\* A colour, size or mass question was returned while a candidate had the
\* value 'unknown' for that attribute.
C11_Witness ==
    /\ pending
    /\ result[1] \in UnknownAttributes
    /\ \E e \in Elements(current_pokemon_set) :
           Get(e, FieldOf(result[1]), "unknown") = "unknown"

\* C12 (next_question frame): a call of next_question leaves the candidate
\* set, members and order, unchanged; when it returns a question it adds
\* exactly the returned pair, which was not there, to the asked set.
C12_AskFrame ==
    [][generate_question
       => /\ current_pokemon_set' = current_pokemon_set
          /\ ~IsTerminal(result')
             => /\ result' \notin asked_questions
                /\ asked_questions' = asked_questions \cup {result'}]_vars

\* A second question was returned on a candidate set already narrowed by an
\* answer.
C12_Witness ==
    /\ pending
    /\ Cardinality(asked_questions) >= 2
    /\ result \in asked_questions
    /\ Len(current_pokemon_set) >= 2
    /\ Len(current_pokemon_set) < Len(dataset)

\* C13 (terminal markers): apply_answer with attribute 'error' or
\* 'final_guess' changes neither the candidate set nor the asked set,
\* whatever the value and the answer, in models.py and in main.py.
C13_MarkerNoOp ==
    [][\A key \in MarkerPairs, answer \in BOOLEAN :
          update_pokemon_set(key[1], key[2], answer)
          => /\ current_pokemon_set' = current_pokemon_set
             /\ asked_questions' = asked_questions
             /\ main_update_pokemon_set(current_pokemon_set,
                                        key[1], key[2], answer)
                    = current_pokemon_set]_vars

\* After two questions a guess named the last candidate, and the candidate
\* is still there after a further call.
C13_Witness ==
    /\ terminated
    /\ turns >= 3
    /\ result[1] = "final_guess"
    /\ Len(current_pokemon_set) = 1
    /\ result[2] = current_pokemon_set[1]["nom"]
    /\ tick = (turns % 2 = 0)

\* The progression flag of an entity; false when it has no derived flag.
ProgressionFlag(e) == "can_evolve" \in DOMAIN e /\ e["can_evolve"] = True

\* What a yes answer to ('can_evolve', value) asserts of an entity.
EvolutionHolds(e, value) ==
    IF value = False THEN ~ProgressionFlag(e) ELSE ProgressionFlag(e)

\* C14 (progression-flag polarity): for both framings and both answers,
\* apply_answer('can_evolve', value, answer) keeps exactly the candidates e,
\* in order, with (value = False ? not flag(e) : flag(e)) = answer; the
\* framing value False is the one worded "final form", so a yes to it keeps
\* exactly the entities that cannot evolve.
C14_EvolutionPolarity ==
    [][\A value \in {True, False}, answer \in BOOLEAN :
          update_pokemon_set("can_evolve", value, answer)
          => /\ \A e \in Elements(current_pokemon_set') :
                    EvolutionHolds(e, value) = answer
             /\ \A e \in Elements(current_pokemon_set) :
                    EvolutionHolds(e, value) = answer
                    => e \in Elements(current_pokemon_set')
             /\ IsSubsequence(current_pokemon_set', current_pokemon_set)
             /\ generate_evolution_question(value) = "forme finale"
                    <=> value = False
             /\ (generate_evolution_question(value) = "forme finale" /\ answer)
                    => \A e \in Elements(current_pokemon_set') :
                           ~ProgressionFlag(e)]_vars

\* The final-form question was asked and answered: candidates that can
\* evolve were removed, and one with no derived flag is among those kept.
C14_Witness ==
    /\ ~pending
    /\ result = <<"can_evolve", False>>
    /\ Len(current_pokemon_set) >= 1
    /\ Len(current_pokemon_set) < Len(dataset)
    /\ \A e \in Elements(current_pokemon_set) : ~ProgressionFlag(e)
    /\ \E e \in Elements(current_pokemon_set) : "can_evolve" \notin DOMAIN e
    /\ \E e \in Elements(dataset) : ProgressionFlag(e)

\* C15 (host misuse): apply_answer with a pair that next_question never
\* returned in this session, an attribute outside the registry included, is
\* rejected and leaves the candidate set unchanged.
C15_MisuseRejected ==
    [][\A key \in HostPairs, answer \in BOOLEAN :
          (/\ ~IsTerminal(key)
           /\ key \notin BagToSet(issued)
           /\ update_pokemon_set(key[1], key[2], answer))
          => current_pokemon_set' = current_pokemon_set]_vars

DerivedKeys ==
    {"visual_primary_color", "height_category", "weight_category", "can_evolve"}

\* The derived attributes of an entity.
DerivedView(e) == [k \in DerivedKeys \cap DOMAIN e |-> e[k]]

\* Whether the raw field of a record is a number / a usable colour / a chain
\* that names a later form of the entity.
HasNumber(e, field) == field \in DOMAIN e /\ e[field].t = "num"

HasColor(e) ==
    /\ "visual_attributes" \in DOMAIN e
    /\ e["visual_attributes"].t = "dict"
    /\ "primary_color" \in DOMAIN e["visual_attributes"].v
    /\ e["visual_attributes"].v["primary_color"].t = "str"
    /\ e["visual_attributes"].v["primary_color"].v # ""

\* C16 (total derivation): on every raw record, whichever of taille, poids,
\* visual_attributes, evolution and id is missing, null or mistyped, the pass
\* completes without an error and yields 'unknown' for the size class, mass
\* class and colour it cannot derive, and a false progression flag (an
\* absent flag reads as false) when there is no usable chain and id.
C16_DerivationTotal ==
    (passes >= 1 /\ Len(dataset) >= 1)
    => /\ raised = "none"
       /\ \A e \in Elements(dataset) :
              /\ {"visual_primary_color", "height_category", "weight_category"}
                     \subseteq DOMAIN e
              /\ ~HasNumber(e, "taille") => e["height_category"] = "unknown"
              /\ ~HasNumber(e, "poids") => e["weight_category"] = "unknown"
              /\ ~HasColor(e) => e["visual_primary_color"] = "unknown"
              /\ ~({"evolution", "id"} \subseteq DOMAIN e
                    /\ e["evolution"].t = "list")
                    => ~ProgressionFlag(e)

\* C17 (idempotent derivation): a further run of the derivation pass on an
\* already derived dataset leaves the colour, size class, mass class and
\* progression flag of every entity as they were.
C17_IdempotentDerivation ==
    [][((\E verbose \in BOOLEAN : preprocess(verbose))
        /\ passes >= 1 /\ raised' = "none")
       => /\ Len(dataset') = Len(dataset)
          /\ \A i \in 1..Len(dataset) :
                 DerivedView(dataset'[i]) = DerivedView(dataset[i])]_vars

\* The pass has run twice on a two-record dataset with a derived size class,
\* a progression flag set, and an underivable colour.
C17_Witness ==
    /\ passes = 2
    /\ raised = "none"
    /\ Len(dataset) = 2
    /\ \E e \in Elements(dataset) :
           /\ ProgressionFlag(e)
           /\ e["height_category"] = "small"
           /\ e["visual_primary_color"] = "unknown"
    /\ \E e \in Elements(dataset) : "can_evolve" \notin DOMAIN e

\* What instance t sees: its candidate list and its asked set.
SessionView(h, ss, ds, t) ==
    [current_pokemon_set |-> DerefList(h, ds, ss[t].current_pokemon_set),
     asked_questions |-> DerefSet(h, ss[t].asked_questions)]

\* A call on instance s.
SessionStep(s) ==
    \/ session_generate_question(s)
    \/ \E key \in SessionPairs(s), answer \in BOOLEAN :
           session_update_pokemon_set(s, key[1], key[2], answer)

\* C18 (session isolation): a new instance starts with the whole dataset, in
\* dataset order, as its candidate list and with an empty asked set; a call
\* of generate_question or update_pokemon_set on one instance changes neither
\* the candidate list nor the asked set of any other instance built from the
\* same dataset, and no call changes the dataset.
C18_SessionIsolation ==
    [][/\ dataset' = dataset
       /\ \A t \in 1..Len(sessions') :
              DerefList(heap', dataset', sessions'[t].dataset) = dataset
       /\ QuestionGenerator_init
              => /\ Len(sessions') = Len(sessions) + 1
                 /\ SessionView(heap', sessions', dataset', Len(sessions'))
                        = [current_pokemon_set |-> dataset,
                           asked_questions |-> {}]
                 /\ \A t \in 1..Len(sessions) :
                        SessionView(heap', sessions', dataset', t)
                            = SessionView(heap, sessions, dataset, t)
       /\ \A s \in 1..Len(sessions) :
              SessionStep(s)
                  => \A t \in 1..Len(sessions) \ {s} :
                         SessionView(heap', sessions', dataset', t)
                             = SessionView(heap, sessions, dataset, t)]_vars

\* Two instances of one dataset of two entities: the first has asked a
\* question and narrowed its list; the second has asked the same question and
\* another one, and still has the whole dataset.
C18_Witness ==
    /\ Len(sessions) = 2
    /\ Len(dataset) = 2
    /\ LET one == SessionView(heap, sessions, dataset, 1)
           two == SessionView(heap, sessions, dataset, 2)
       IN /\ Len(one.current_pokemon_set) < Len(dataset)
          /\ two.current_pokemon_set = dataset
          /\ one.asked_questions \cap two.asked_questions # {}
          /\ two.asked_questions # one.asked_questions

\* The distribution the class computes for attribute attr over s.
DistributionOf(attr, s) ==
    LET ds == distributions(s)
    IN ds[CHOOSE a \in 1..Len(ds) : ds[a].attr = attr].dist

\* C19 (ranking score matches the distribution): the score that ranks an
\* eligible (attribute, value) pair is |0.5 - distribution[value] / total|,
\* with the distribution computed for that attribute over the candidate set
\* and total the number of candidates; for all five attributes, also when
\* some candidate has no progression flag.
C19_ScoreMatchesDistribution ==
    \A q \in ScoredCandidates :
        q.score = ratio_score(
                      CounterGet(DistributionOf(q.key[1], current_pokemon_set),
                                 q.key[2]),
                      Len(current_pokemon_set))

\* The registry order of the attributes.
RegistryOrder ==
    <<"type", "primary_color", "height_category", "weight_category", "can_evolve">>

AttributeRank(a) == CHOOSE i \in 1..Len(RegistryOrder) : RegistryOrder[i] = a

\* The first entity of s, in order, that holds pair p.
FirstHolder(p, s) ==
    CHOOSE i \in 1..Len(s) :
        /\ p[2] \in EntityValues(s[i], p[1])
        /\ \A j \in 1..(i - 1) : p[2] \notin EntityValues(s[j], p[1])

\* Where the scan of entity e meets the value of p: the position among its
\* categories, 1 for a single-valued attribute.
WithinEntity(p, e) == IF p[1] = "type" THEN Position(e["types"], p[2]) ELSE 1

\* p comes before q: attribute first in registry order, then value first
\* encountered when scanning s in order.
Precedes(p, q, s) ==
    LET rank(x) == <<AttributeRank(x[1]), FirstHolder(x, s),
                     WithinEntity(x, s[FirstHolder(x, s)])>>
        a == rank(p)
        b == rank(q)
    IN \/ a[1] < b[1]
       \/ a[1] = b[1] /\ a[2] < b[2]
       \/ a[1] = b[1] /\ a[2] = b[2] /\ a[3] < b[3]

\* a < b on the real numbers two scores stand for.
RealLess(a, b) == a.num * b.den < b.num * a.den

\* The eligible pairs of minimal ranking score.
MinimalPairs(s, asked) ==
    LET eligible == EligiblePairs(s, asked)
        score(p) == calculate_question_score(p[1], p[2], s)
    IN { p \in eligible : \A q \in eligible : ~RealLess(score(q), score(p)) }

\* C20 (deterministic tie-break): when several eligible questions share the
\* minimal score, the question returned is the one whose attribute comes
\* first in the registry order and, within that attribute, whose value is
\* first encountered when scanning the candidate set in order.
C20_TieBreak ==
    [][(generate_question /\ ~IsTerminal(result'))
       => LET minimal == MinimalPairs(current_pokemon_set, asked_questions)
          IN /\ result' \in minimal
             /\ \A q \in minimal \ {result'} :
                    Precedes(result', q, current_pokemon_set)]_vars

\* The candidates of s that answer `answer` to question key keeps.
KeptBy(s, key, answer) == filter_set(s, key[1], key[2], answer)

\* C21 (no degenerate question): every question next_question returns
\* splits the current candidate set: at least one candidate is kept by the
\* answer yes and at least one by the answer no, so either answer strictly
\* shrinks the candidate set.
C21_NoDegenerateQuestion ==
    [][(generate_question /\ ~IsTerminal(result'))
       => /\ Len(KeptBy(current_pokemon_set, result', TRUE)) > 0
          /\ Len(KeptBy(current_pokemon_set, result', FALSE)) > 0]_vars

\* C22 (an attribute is asked about only when it discriminates): whenever
\* next_question returns a question on attribute a, the candidate set has at
\* least 2 candidates and the distribution of a over it has at least 2
\* distinct values other than unknown.
C22_DiscriminatingAttribute ==
    [][(generate_question /\ ~IsTerminal(result'))
       => /\ Len(current_pokemon_set) >= 2
          /\ Cardinality(AttributeValues(result'[1], current_pokemon_set)) >= 2
          /\ Cardinality(
                 CounterValues(DistributionOf(result'[1], current_pokemon_set))
                     \ {"unknown"}) >= 2]_vars

\* After an answer, a question is pending on two candidates or more while
\* another attribute has a single value left among them and has never been
\* asked about.
C22_Witness ==
    /\ pending
    /\ turns >= 2
    /\ Len(current_pokemon_set) >= 2
    /\ \E a \in Registry \ {result[1]} :
           /\ Cardinality(AttributeValues(a, current_pokemon_set)) = 1
           /\ \A q \in asked_questions : q[1] # a

\* The id of e stands in its list chain at a position that is not the last.
BeforeLast(e) ==
    /\ "evolution" \in DOMAIN e
    /\ e["evolution"].t = "list"
    /\ \E i \in 1..(Len(e["evolution"].v) - 1) : e["evolution"].v[i] = e["id"]

ClassOf(v, low, high, names) ==
    IF v <= low THEN names[1] ELSE IF v <= high THEN names[2] ELSE names[3]

\* C24 (two-threshold classification, inclusive lower class): size_class is
\* small iff v <= 0.70, medium iff 0.70 < v <= 1.50, large iff v > 1.50, and
\* mass_class is light / medium / heavy by the same rule with bounds 9.90 and
\* 56.25 (measurements in hundredths).
C24_ThresholdClasses ==
    passes >= 1 =>
        \A e \in Elements(dataset) :
            /\ HasNumber(e, "taille")
                   => LET v == e["taille"].v
                      IN /\ (e["height_category"] = "small") <=> (v <= 70)
                         /\ (e["height_category"] = "medium")
                                <=> (70 < v /\ v <= 150)
                         /\ (e["height_category"] = "large") <=> (v > 150)
            /\ HasNumber(e, "poids")
                   => e["weight_category"]
                          = ClassOf(e["poids"].v, 990, 5625,
                                    <<"light", "medium", "heavy">>)

\* The pass has classified a height equal to the lower threshold and a mass
\* equal to the upper one.
C24_Witness ==
    /\ passes >= 1
    /\ \E e \in Elements(dataset) :
           /\ e["taille"] = Num(70)
           /\ e["height_category"] = "small"
           /\ e["poids"] = Num(5625)
           /\ e["weight_category"] = "medium"

\* sum(counts.values())
RECURSIVE CounterSum(_)
CounterSum(counts) ==
    IF counts = <<>> THEN 0 ELSE Head(counts).count + CounterSum(Tail(counts))

\* The candidates of s that hold value v of attribute a.
Holders(a, v, s) == { i \in 1..Len(s) : v \in EntityValues(s[i], a) }

\* sum over the candidates of the number of categories each holds.
RECURSIVE CategorySlots(_)
CategorySlots(s) ==
    IF s = <<>> THEN 0
    ELSE Cardinality(Elements(Head(s)["types"])) + CategorySlots(Tail(s))

\* C25 (multi-valued counting): the category distribution maps each category
\* to the number of candidates holding it, every candidate contributing to
\* each of its categories, so the counts sum to the number of (candidate,
\* category) holdings, which may exceed the number of candidates; for each
\* single-valued attribute the counts sum to the number of candidates whose
\* value is not unknown.
C25_MultiValuedCounting ==
    LET s == current_pokemon_set
    IN /\ \A a \in Registry :
              LET dist == DistributionOf(a, s)
              IN /\ CounterValues(dist) = AttributeValues(a, s)
                 /\ \A v \in CounterValues(dist) :
                        CounterGet(dist, v) = Cardinality(Holders(a, v, s))
       /\ CounterSum(get_type_distribution(s)) = CategorySlots(s)
       /\ CounterSum(get_type_distribution(s)) >= Len(s)
       /\ \A a \in Registry \ {"type"} :
              CounterSum(DistributionOf(a, s))
                  = Cardinality({ i \in 1..Len(s) : EntityValues(s[i], a) # {} })

\* After an answer, three candidates or more remain, their category counts
\* sum to more than their number, and the colour counts to less.
C25_Witness ==
    /\ turns >= 1
    /\ Len(current_pokemon_set) >= 3
    /\ Len(current_pokemon_set) < Len(dataset)
    /\ CounterSum(get_type_distribution(current_pokemon_set))
           > Len(current_pokemon_set)
    /\ CounterSum(DistributionOf("primary_color", current_pokemon_set))
           < Len(current_pokemon_set)
    /\ CounterSum(DistributionOf("primary_color", current_pokemon_set)) > 0

\* The four questions of the scenario.
ScenarioQuestions ==
    { <<"type", "Feu">>, <<"type", "Eau">>,
      <<"height_category", "small">>, <<"height_category", "large">> }

\* Two floats are the same number.
SameScore(a, b) == ~ScoreLess(a, b) /\ ~ScoreLess(b, a)

\* C26 (spec scenario): on the catalog A (small, fire), B (large, water),
\* C (small, water) the four questions fire, water, small, large all have the
\* same score |3 - 2 * yes_count| / 6 = 1/6, the first question returned is a
\* category question, and the answer true to it leaves exactly the entities
\* holding that category.
C26_Scenario ==
    [][/\ (generate_question /\ turns = 0 /\ current_pokemon_set = dataset)
          => /\ { q.key : q \in ScoredCandidates } = ScenarioQuestions
             /\ \A q \in ScoredCandidates :
                    /\ 6 * q.score.num = q.score.den
                    /\ 6 * Abs(3 - 2 * YesCount(q.key, current_pokemon_set)) = 6
             /\ \A q1, q2 \in ScoredCandidates : SameScore(q1.score, q2.score)
             /\ result'[1] = "type"
       /\ (turns = 1 /\ pending /\ current_pokemon_set = dataset
             /\ update_pokemon_set(result[1], result[2], TRUE))
          => /\ result[1] = "type"
             /\ current_pokemon_set'
                    = SelectSeq(current_pokemon_set,
                                LAMBDA e : result[2] \in Elements(e["types"]))]_vars

\* The game loop of the host has been left.
GameOver(h) == h.pc \in {"replay", "done"}

\* C27 (terminal protocol of the host loops): after an error outcome the
\* game ends at once, with no answer read and no further generate_question
\* call; after a final guess the game ends after exactly one more answer has
\* been read, and that answer does not change the candidate set.
C27_TerminalProtocol ==
    [][/\ (GameOver(host') /\ host'.outcome = "error")
          => host'.answers = 0 /\ host'.calls = 0
       /\ (GameOver(host') /\ host'.outcome = "final_guess")
          => host'.answers = 1 /\ host'.calls = 0
       /\ (host.outcome # "none" /\ host'.games = host.games)
          => current_pokemon_set' = current_pokemon_set]_vars

\* C28 (the simulated player is truthful): the answer simulate_game passes
\* to update_pokemon_set for a returned question (attribute, value) is true
\* exactly when the target has that value for that attribute, for every
\* attribute the generator asks about, so the target is never removed from
\* the candidate set.
C28_TruthfulPlayer ==
    [][(sim_update /\ ~IsTerminal(result))
       => /\ simulate_answer(host.target, result[1], result[2])
                 <=> (result[2] \in EntityValues(host.target, result[1]))
          /\ host.target \in Elements(current_pokemon_set)
                 => host.target \in Elements(current_pokemon_set')]_vars

\* C29 (the simulation stops at the first terminal outcome): simulate_game
\* leaves its loop in the iteration in which generate_question returns a
\* final guess or an error outcome and calls generate_question no more; the
\* max_questions limit ends the loop only when more than 20 real questions
\* have been asked.
C29_StopsAtTerminal ==
    [][sim_generate
       => /\ IsTerminal(result') => host'.pc = "returned"
          /\ host.terminal = 0
          /\ (host'.pc = "returned" /\ ~IsTerminal(result'))
                 => host'.real > max_questions]_vars

\* C30 (soundness under truthful answers): when every question is answered
\* with what is true of a fixed target entity of the catalog, the target is
\* in the candidate set in every state, the error outcome is never returned,
\* and a final guess returned while exactly one candidate remains names the
\* target.
C30_TruthfulSoundness ==
    /\ host.target \in Elements(current_pokemon_set)
    /\ result[1] # "error"
    /\ (result[1] = "final_guess" /\ Len(current_pokemon_set) = 1)
           => result[2] = host.target["nom"]

\* Two questions or more have been answered for the target, one candidate
\* remains and the final guess names the target.
C30_Witness ==
    /\ turns >= 3
    /\ result = <<"final_guess", host.target["nom"]>>
    /\ Len(current_pokemon_set) = 1
    /\ Len(dataset) >= 3

\* Whether every answer applied so far is true of the entity.
ConsistentWith(e, applied) ==
    \A i \in 1..Len(applied) :
        TrueOf(e, applied[i][1], applied[i][2]) = applied[i][3]

ConsistentEntities(catalog, applied) ==
    LET consistent(e) == ConsistentWith(e, applied)
    IN SelectSeq(catalog, consistent)

\* C31 (the candidate set is a subsequence of the catalog): in every state
\* the candidate set holds catalog entities only, none more often than the
\* catalog and in catalog order; it is exactly the catalog entities
\* consistent with all the answers applied so far; and no call of
\* next_question or apply_answer changes the stored catalog.
C31_CatalogSubsequence ==
    /\ [](/\ IsSubsequence(current_pokemon_set, dataset)
          /\ current_pokemon_set = ConsistentEntities(dataset, host.applied))
    /\ [][dataset' = dataset]_vars

\* Three answers, a yes and a no among them, have been applied and some but
\* not all catalog entities remain.
C31_Witness ==
    /\ host.program = "recording_host"
    /\ Len(host.applied) >= 3
    /\ \E i, j \in 1..Len(host.applied) :
          host.applied[i][3] /\ ~host.applied[j][3]
    /\ Len(current_pokemon_set) >= 1
    /\ Len(current_pokemon_set) < Len(dataset)

\* The answer applied by the step, when the step applies one.
AnswerApplied == host'.applied[Len(host'.applied)]

C34_AskedBookkeeping ==
    /\ [](/\ Cardinality(asked_questions) = BagCardinality(issued)
          /\ \A key \in asked_questions : ~IsTerminal(key))
    /\ [][/\ issued' = issued => asked_questions' = asked_questions
          /\ asked_questions' # asked_questions
                => /\ ~IsTerminal(result')
                   /\ result' \notin asked_questions
                   /\ asked_questions' = asked_questions \cup {result'}]_vars

\* Two questions have been returned and answered, and a final guess has
\* been returned after them.
C34_Witness ==
    /\ host = NoHost
    /\ Cardinality(asked_questions) = 2
    /\ result[1] = "final_guess"
    /\ Len(current_pokemon_set) < Len(dataset)

\* C36 (the two can_evolve copies agree): for every chain (empty, missing,
\* not a list, without the id, with the id more than once) and every entity
\* id, can_evolve of main.py returns the boolean can_evolve of models.py
\* returns.
C36_CanEvolveCopiesAgree ==
    passes >= 1 =>
        \A e \in Elements(dataset) :
            "evolution" \in DOMAIN e
                => /\ e["can_evolve"] = can_evolve(e["evolution"], e["id"])
                   /\ main_can_evolve(e["evolution"], e["id"])
                          = can_evolve(e["evolution"], e["id"])

\* The names of the entities of a sequence, in order.
Names(s) == [i \in 1..Len(s) |-> s[i]["nom"]]

\* C35 (the two generators agree when progression does not discriminate):
\* on a catalog whose entities all have the same progression flag, after
\* every step of every answer sequence the generator of main.py and the
\* generator of models.py have returned the same outcome (same pair, same
\* final guess or error) and hold the same candidates and the same asked set.
C35_GeneratorsAgree ==
    /\ host.result = result
    /\ Names(host.current_pokemon_set) = Names(current_pokemon_set)
    /\ host.asked_questions = asked_questions

====
